---- MODULE Spec2Model ----
(***************************************************************************)
(* A model of the Cloudflare Worker TOTP authenticator (ggzhzc/            *)
(* 2fa-AUTH-cloudflare): the Base32 codec, the TOTP class and the request  *)
(* handler of its variants      (KV: _worker.js, part_000; D1: part_001,   *)
(* part_002).                                                              *)
(*                                                                         *)
(* A text is a sequence of characters; a character is a one-character      *)
(* string, and a non-ASCII character is written by its code point, e.g.    *)
(* "U+0131".  A byte is a number in 0..255.  A JavaScript int32 is a       *)
(* number in -2^31 .. 2^31-1.  A function that can throw returns a record  *)
(* [ok |-> TRUE, value |-> v] or [ok |-> FALSE, error |-> message].        *)
(***************************************************************************)
EXTENDS Integers, Sequences, FiniteSets, TLC

\* ------------------------------------------------------------------ bounds
\* Longest enumerated secret text in the codec specification.
MaxLen == 2
\* Largest time-step counter handed to generateOTP directly.
MaxCounter == 2
\* The clock runs over 0 .. MaxTick ticks of TickMs milliseconds.
MaxTick == 1
TickMs == 30000
\* Most POST requests and most GET requests handled in one behaviour.
MaxPosts == 2
MaxGets == 1
\* Longest byte sequence whose Base32 encoding is decoded.
MaxBytes == 5
MaxPageMs == 65000
MaxLateMs == 500

\* --------------------------------------------------- JavaScript primitives
Ok(v) == [ok |-> TRUE, value |-> v]
Throw(msg) == [ok |-> FALSE, error |-> msg]

MinInt32 == (-2147483647) - 1

\* The two unsigned 16-bit halves of an int32, and back.
Hi16(v) == (v \div 65536) % 65536
Lo16(v) == v % 65536
FromHalves(hi, lo) == (IF hi >= 32768 THEN hi - 65536 ELSE hi) * 65536 + lo

RECURSIVE BitOp(_, _, _, _)
\* op "and", "or", "xor" on the n low bits of two non-negative numbers
BitOp(op, a, b, n) ==
  IF n = 0 THEN 0
  ELSE LET ba == a % 2
           bb == b % 2
           r  == CASE op = "and" -> ba * bb
                   [] op = "or"  -> IF ba + bb > 0 THEN 1 ELSE 0
                   [] op = "xor" -> (ba + bb) % 2
       IN r + 2 * BitOp(op, a \div 2, b \div 2, n - 1)

\* a | b and a & b on int32 operands
JsOr(a, b)  == FromHalves(BitOp("or", Hi16(a), Hi16(b), 16), BitOp("or", Lo16(a), Lo16(b), 16))
JsAnd(a, b) == FromHalves(BitOp("and", Hi16(a), Hi16(b), 16), BitOp("and", Lo16(a), Lo16(b), 16))
\* a << n that stays at 2^31 - 1 once a * 2^n no longer fits (a >= 0)
JsShlSaturating(a, n) == IF a >= 2 ^ (31 - n) THEN 2147483647 ELSE a * (2 ^ n)
\* a << n, 0 < n < 32: the low 32 bits of a * 2^n, read as an int32
JsShl(a, n) ==
  LET low == a % (2 ^ (32 - n))
  IN IF low >= 2 ^ (31 - n) THEN (low - 2 ^ (31 - n)) * (2 ^ n) + MinInt32
     ELSE low * (2 ^ n)
\* a >> n: sign-propagating shift
JsSar(a, n) == a \div (2 ^ n)

\* String.prototype.toUpperCase: the Unicode default upper-case mapping of
\* one character (a text, as the mapping may lengthen it).
LowerCase == <<"a", "b", "c", "d", "e", "f", "g", "h", "i", "j", "k", "l", "m",
               "n", "o", "p", "q", "r", "s", "t", "u", "v", "w", "x", "y", "z">>
UpperCase == <<"A", "B", "C", "D", "E", "F", "G", "H", "I", "J", "K", "L", "M",
               "N", "O", "P", "Q", "R", "S", "T", "U", "V", "W", "X", "Y", "Z">>
UpperOf(c) ==
  IF \E i \in 1..26 : LowerCase[i] = c
    THEN <<UpperCase[CHOOSE i \in 1..26 : LowerCase[i] = c]>>
  ELSE CASE c = "U+0131" -> <<"I">>          \* dotless i
         [] c = "U+017F" -> <<"S">>          \* long s
         [] c = "U+00DF" -> <<"S", "S">>     \* sharp s
         [] c = "U+00E9" -> <<"U+00C9">>     \* e acute
         [] OTHER -> <<c>>

RECURSIVE toUpperCase(_)
toUpperCase(str) ==
  IF Len(str) = 0 THEN <<>> ELSE UpperOf(Head(str)) \o toUpperCase(Tail(str))

\* str.replace(/ /g, ''): every U+0020 removed, nothing else
RemoveSpaces(str) == SelectSeq(str, LAMBDA c : c # " ")

\* StripTrailingEquals when the padding is left in place
KeepTrailingEquals(str) == str

RECURSIVE StripTrailingEquals(_)
\* str.replace(/=+$/, ''): the trailing run of '=' removed
StripTrailingEquals(str) ==
  IF Len(str) > 0 /\ str[Len(str)] = "="
    THEN StripTrailingEquals(SubSeq(str, 1, Len(str) - 1))
  ELSE str

\* ------------------------------------------------------------ base32ToBytes
alphabet == <<"A", "B", "C", "D", "E", "F", "G", "H", "I", "J", "K", "L", "M",
              "N", "O", "P", "Q", "R", "S", "T", "U", "V", "W", "X", "Y", "Z",
              "2", "3", "4", "5", "6", "7">>

\* alphabet.indexOf(c)
indexOf(c) ==
  IF \E i \in 1..Len(alphabet) : alphabet[i] = c
    THEN (CHOOSE i \in 1..Len(alphabet) : alphabet[i] = c) - 1
  ELSE -1

RECURSIVE Base32Loop(_, _, _)
\* The for loop of base32ToBytes from index i on; st = <<bits, value, bytes>>.
Base32Loop(clean, i, st) ==
  IF i > Len(clean) THEN Ok(st[3])
  ELSE LET idx == indexOf(clean[i])
       IN IF idx = -1 THEN Throw("Invalid base32")
          ELSE LET value == JsOr(JsShl(st[2], 5), idx)
                   bits  == st[1] + 5
               IN IF bits >= 8
                    THEN Base32Loop(clean, i + 1,
                           <<bits - 8, value, Append(st[3], JsAnd(JsSar(value, bits - 8), 255))>>)
                    ELSE Base32Loop(clean, i + 1, <<bits, value, st[3]>>)

base32ToBytes(str) ==
  LET clean == StripTrailingEquals(toUpperCase(str))
  IN Base32Loop(clean, 1, <<0, 0, <<>>>>)

\* ------------------------------------------- crypto.subtle: HMAC with SHA-1
\* A 32-bit word is a pair <<high 16 bits, low 16 bits>>.  The bitwise
\* functions of SHA-1 (RFC 3174) are computed bit by bit on each half.
RECURSIVE ChBits(_, _, _, _)
\* (b AND c) OR ((NOT b) AND d) on the n low bits
ChBits(b, c, d, n) ==
  IF n = 0 THEN 0
  ELSE (IF b % 2 = 1 THEN c % 2 ELSE d % 2) + 2 * ChBits(b \div 2, c \div 2, d \div 2, n - 1)

RECURSIVE ParityBits(_, _, _, _)
\* b XOR c XOR d on the n low bits
ParityBits(b, c, d, n) ==
  IF n = 0 THEN 0
  ELSE ((b + c + d) % 2) + 2 * ParityBits(b \div 2, c \div 2, d \div 2, n - 1)

RECURSIVE MajBits(_, _, _, _)
\* (b AND c) OR (b AND d) OR (c AND d) on the n low bits
MajBits(b, c, d, n) ==
  IF n = 0 THEN 0
  ELSE (IF (b % 2) + (c % 2) + (d % 2) >= 2 THEN 1 ELSE 0)
         + 2 * MajBits(b \div 2, c \div 2, d \div 2, n - 1)

Ch32(b, c, d)     == <<ChBits(b[1], c[1], d[1], 16), ChBits(b[2], c[2], d[2], 16)>>
Parity32(b, c, d) == <<ParityBits(b[1], c[1], d[1], 16), ParityBits(b[2], c[2], d[2], 16)>>
Maj32(b, c, d)    == <<MajBits(b[1], c[1], d[1], 16), MajBits(b[2], c[2], d[2], 16)>>
Xor32(a, b)       == Parity32(a, b, <<0, 0>>)
Add32(a, b) ==
  <<(a[1] + b[1] + ((a[2] + b[2]) \div 65536)) % 65536, (a[2] + b[2]) % 65536>>
\* rotate left by n, 0 < n < 16
RotlShort(a, n) ==
  <<((a[1] * 2 ^ n) % 65536) + (a[2] \div 2 ^ (16 - n)),
    ((a[2] * 2 ^ n) % 65536) + (a[1] \div 2 ^ (16 - n))>>
Rotl32(a, n) ==
  IF n < 16 THEN RotlShort(a, n)
  ELSE IF n = 16 THEN <<a[2], a[1]>>
  ELSE RotlShort(<<a[2], a[1]>>, n - 16)

\* word i (from 0) of a 64-byte block, big-endian
WordAt(block, i) ==
  <<block[4 * i + 1] * 256 + block[4 * i + 2], block[4 * i + 3] * 256 + block[4 * i + 4]>>

RECURSIVE Sha1Schedule(_, _)
\* the message schedule grown to n words from the 16 words of the block
\* (the words are added one after the other; the recursion halves the range)
Sha1Schedule(w, n) ==
  IF Len(w) >= n THEN w
  ELSE IF Len(w) + 1 = n
  THEN Append(w, Rotl32(Xor32(Parity32(w[n - 3], w[n - 8], w[n - 14]), w[n - 16]), 1))
  ELSE Sha1Schedule(Sha1Schedule(w, (Len(w) + n) \div 2), n)

Sha1F(t, b, c, d) ==
  IF t < 20 THEN Ch32(b, c, d)
  ELSE IF t < 40 THEN Parity32(b, c, d)
  ELSE IF t < 60 THEN Maj32(b, c, d)
  ELSE Parity32(b, c, d)

Sha1K(t) ==
  IF t < 20 THEN <<23170, 31129>>          \* 5A827999
  ELSE IF t < 40 THEN <<28377, 60321>>     \* 6ED9EBA1
  ELSE IF t < 60 THEN <<36635, 48348>>     \* 8F1BBCDC
  ELSE <<51810, 49622>>                    \* CA62C1D6

RECURSIVE Sha1Rounds(_, _, _)
\* s = <<a, b, c, d, e, t>>: the working variables before round t, advanced
\* to round n (one round after the other; the recursion halves the range)
Sha1Rounds(s, w, n) ==
  IF s[6] >= n THEN s
  ELSE IF s[6] + 1 = n
  THEN <<Add32(Add32(Add32(Add32(Rotl32(s[1], 5), Sha1F(s[6], s[2], s[3], s[4])),
                           s[5]), Sha1K(s[6])), w[n]),
         s[1], Rotl32(s[2], 30), s[3], s[4], n>>
  ELSE Sha1Rounds(Sha1Rounds(s, w, (s[6] + n) \div 2), w, n)

\* the chaining value h plus the working variables s after the last round
Sha1AddState(h, s) ==
  <<Add32(h[1], s[1]), Add32(h[2], s[2]), Add32(h[3], s[3]),
    Add32(h[4], s[4]), Add32(h[5], s[5])>>

Sha1Compress(h, block) ==
  Sha1AddState(h, Sha1Rounds(<<h[1], h[2], h[3], h[4], h[5], 0>>,
                             Sha1Schedule([i \in 1..16 |-> WordAt(block, i - 1)], 80), 80))

\* 67452301 EFCDAB89 98BADCFE 10325476 C3D2E1F0
Sha1H0 == <<<<26437, 8961>>, <<61389, 43913>>, <<39098, 56574>>, <<4146, 21622>>, <<50130, 57840>>>>

Zeros(n) == [i \in 1..n |-> 0]

\* the padded message (messages here are shorter than 8192 bytes)
Sha1Pad(msg) ==
  msg \o <<128>> \o Zeros((55 - Len(msg)) % 64) \o Zeros(6)
      \o <<(Len(msg) * 8) \div 256, (Len(msg) * 8) % 256>>

RECURSIVE Sha1Blocks(_, _)
Sha1Blocks(h, m) ==
  IF Len(m) = 0 THEN h
  ELSE Sha1Blocks(Sha1Compress(h, SubSeq(m, 1, 64)), SubSeq(m, 65, Len(m)))

\* the four bytes of a word, big-endian
WordBytes(word) == <<word[1] \div 256, word[1] % 256, word[2] \div 256, word[2] % 256>>
StateBytes(h) ==
  WordBytes(h[1]) \o WordBytes(h[2]) \o WordBytes(h[3]) \o WordBytes(h[4]) \o WordBytes(h[5])

\* the 20-byte SHA-1 digest of a byte sequence
Sha1(msg) == StateBytes(Sha1Blocks(Sha1H0, Sha1Pad(msg)))

\* the key of HMAC, hashed when longer than a block, padded to 64 bytes
HmacKeyBlock(key) ==
  (IF Len(key) > 64 THEN Sha1(key) ELSE key)
    \o Zeros(64 - (IF Len(key) > 64 THEN 20 ELSE Len(key)))
HmacPads(kp, data) ==
  Sha1([i \in 1..64 |-> ParityBits(kp[i], 92, 0, 8)]
         \o Sha1([i \in 1..64 |-> ParityBits(kp[i], 54, 0, 8)] \o data))

\* HMAC (RFC 2104) over SHA-1: what crypto.subtle.sign('HMAC', key, data) returns
HmacSha1(key, data) == HmacPads(HmacKeyBlock(key), data)

\* ------------------------------------------------------- the texts modelled
\* A missing form field or a deleted KV value: null, as a string and as a text.
null == "<null>"
nullText == <<"<null>">>

\* Characters of the enumerated secret texts: an alphabet symbol in both cases,
\* a digit outside the alphabet, padding, a space, a tab, and two non-ASCII
\* letters (dotless i, e acute).
Chars == {"A", "a", "1", "=", " ", "\t", "U+0131", "U+00E9"}

SecretA == <<"J", "B", "S", "W", "Y", "3", "D", "P", "E", "H", "P", "K", "3", "P", "X", "P">>
SecretB == <<"m", "f", " ", "r", "g", "g">>
ZeroByteSecret == <<"A">>
InvalidSecret == <<"1">>

\* decodes to the single byte 0; its code at counter 2 needs padding
PaddedSecret == <<"A", "A">>
\* SecretA as a user may type it
SecretALower == <<"j", "b", "s", "w", " ", "y", "3", "d", "p", " ", "e", "h", "p", "k", " ", "3", "p", "x", "p", "=">>

\* SecretB's bytes as a text with a tab inside
TabbedSecret == <<"M", "F", "\t", "R", "G", "G">>

\* The SHA-1 key of the test vectors of RFC 6238, appendix B: the Base32 text
\* of the 20 ASCII bytes "12345678901234567890".
RfcSecret ==
  <<"G", "E", "Z", "D", "G", "N", "B", "V", "G", "Y", "3", "T", "Q", "O", "J", "Q",
    "G", "E", "Z", "D", "G", "N", "B", "V", "G", "Y", "3", "T", "Q", "O", "J", "Q">>

\* every text of at most MaxLen characters, and the named ones
Texts == (UNION {[1..n -> Chars] : n \in 0..MaxLen})
           \cup {SecretA, SecretB, SecretALower, TabbedSecret, RfcSecret}

\* The standard Base32 encoding (RFC 4648, section 6) of a byte sequence, with
\* or without its "=" padding: the texts an authenticator hands out.
BitOfBytes(bytes, i) ==
  IF i > 8 * Len(bytes) THEN 0
  ELSE (bytes[((i - 1) \div 8) + 1] \div (2 ^ (7 - ((i - 1) % 8)))) % 2
Base32Symbol(bytes, k) ==
  alphabet[1 + 16 * BitOfBytes(bytes, 5 * k - 4) + 8 * BitOfBytes(bytes, 5 * k - 3)
             + 4 * BitOfBytes(bytes, 5 * k - 2) + 2 * BitOfBytes(bytes, 5 * k - 1)
             + BitOfBytes(bytes, 5 * k)]
Base32Encode(bytes, padded) ==
  LET n == (8 * Len(bytes) + 4) \div 5
  IN [k \in 1..n |-> Base32Symbol(bytes, k)]
       \o (IF padded THEN [k \in 1..((8 - (n % 8)) % 8) |-> "="] ELSE <<>>)

\* the byte sequences encoded: all zeros, all ones and a mixed pattern (A5)
ByteValues == {0, 165, 255}
ByteSeqs == UNION {[1..n -> ByteValues] : n \in 0..MaxBytes}
\* <<bytes, padded, text>> for every encoding, computed once
EncodingMemo == {<<b, padded, Base32Encode(b, padded)>> : b \in ByteSeqs, padded \in BOOLEAN}
EncodedTexts == {m[3] : m \in EncodingMemo}
\* the secrets the TOTP class is exercised on
SecretTexts == {SecretA, SecretALower, SecretB, PaddedSecret, ZeroByteSecret}

\* the instants of the vectors, in whole seconds since the epoch
RfcSeconds == {59, 1111111109, 1234567890}

\* --------------------------------------------------------------- class TOTP
\* new TOTP(secret): the instance, or what the constructor throws
TOTP(secret) ==
  IF secret = nullText THEN Throw("TypeError")     \* null.replace
  ELSE LET bytes == base32ToBytes(RemoveSpaces(secret))
       IN IF bytes.ok
            THEN Ok([secret |-> bytes.value, period |-> 30, digits |-> 6, algorithm |-> "SHA-1"])
          ELSE bytes

\* CounterBuffer with the bytes of the counter in little-endian order
CounterBufferLittleEndian(counter) ==
  <<0, 0, 0, 0, counter % 256, (counter \div 256) % 256, (counter \div 65536) % 256,
    (counter \div 16777216) % 256>>

\* view.setUint32(4, counter) on a zeroed 8-byte buffer, for 0 <= counter < 2^31
CounterBuffer(counter) ==
  <<0, 0, 0, 0, (counter \div 16777216) % 256, (counter \div 65536) % 256,
    (counter \div 256) % 256, counter % 256>>

\* The counters the model signs: those handed to generateOTP directly and those
\* the clock yields.
Counters == 0..MaxCounter
ClockCounters == 0..((MaxTick * TickMs) \div 30000)

\* Math.floor(Date.now() / 1000 / this.period) at an instant beyond the
\* integers of the checker, given as its whole seconds and the milliseconds
\* past them (millis < 1000): floor((1000 s + ms) / (1000 p)) = floor(s / p).
CounterAtSeconds(seconds, millis, period) == (seconds + (millis \div 1000)) \div period

\* The digests of every key and counter of the model, computed once.
HmacMemo ==
  {<<t.value.secret, c, HmacSha1(t.value.secret, CounterBuffer(c))>> :
     t \in {r \in {TOTP(text) : text \in SecretTexts} : r.ok}, c \in Counters \cup ClockCounters}
  \cup {<<TOTP(RfcSecret).value.secret, CounterAtSeconds(s, 0, 30),
          HmacSha1(TOTP(RfcSecret).value.secret, CounterBuffer(CounterAtSeconds(s, 0, 30)))>> :
           s \in RfcSeconds}

\* crypto.subtle.sign('HMAC', key, data): HmacSha1(key, data), looked up in
\* HmacMemo when it is there
sign(key, data) ==
  IF \E m \in HmacMemo : m[1] = key /\ CounterBuffer(m[2]) = data
    THEN (CHOOSE m \in HmacMemo : m[1] = key /\ CounterBuffer(m[2]) = data)[3]
  ELSE HmacSha1(key, data)

\* a % b of JavaScript for b > 0: the remainder takes the sign of a
JsRem(a, b) == IF a >= 0 THEN a % b ELSE -((-a) % b)

DigitChars == <<"0", "1", "2", "3", "4", "5", "6", "7", "8", "9">>

RECURSIVE NatToString(_)
NatToString(n) ==
  IF n < 10 THEN <<DigitChars[n + 1]>>
  ELSE Append(NatToString(n \div 10), DigitChars[(n % 10) + 1])

\* Number.prototype.toString of an integer
NumberToString(n) == IF n < 0 THEN <<"-">> \o NatToString(-n) ELSE NatToString(n)

RECURSIVE padStart(_, _, _)
\* str.padStart(targetLength, pad) for a one-character pad
padStart(str, targetLength, pad) ==
  IF Len(str) >= targetLength THEN str ELSE padStart(<<pad>> \o str, targetLength, pad)

\* offset and binCode of generateOTP; hmac is the digest, indexed from 1 here
Offset(hmac) == JsAnd(hmac[Len(hmac)], 15)
\* BinCode with 0xff in the place of the mask 0x7f of the first byte
BinCodeUnmasked(hmac) ==
  LET offset == Offset(hmac)
  IN JsOr(JsOr(JsOr(JsShl(JsAnd(hmac[offset + 1], 255), 24),
                    JsShl(JsAnd(hmac[offset + 2], 255), 16)),
               JsShl(JsAnd(hmac[offset + 3], 255), 8)),
          JsAnd(hmac[offset + 4], 255))
BinCode(hmac) ==
  LET offset == Offset(hmac)
  IN JsOr(JsOr(JsOr(JsShl(JsAnd(hmac[offset + 1], 127), 24),
                    JsShl(JsAnd(hmac[offset + 2], 255), 16)),
               JsShl(JsAnd(hmac[offset + 3], 255), 8)),
          JsAnd(hmac[offset + 4], 255))

\* FormatOtp without the padStart
FormatOtpUnpadded(binCode, digits) ==
  NumberToString(JsRem(binCode, 10 ^ digits))

\* otp.toString().padStart(this.digits, '0') for otp = binCode % 10 ** digits
FormatOtp(binCode, digits) ==
  padStart(NumberToString(JsRem(binCode, 10 ^ digits)), digits, "0")

\* this.generateOTP(counter).  crypto.subtle.importKey is given the raw secret;
\* for a zero-length key the Web Crypto specification has it throw a DataError,
\* and a runtime that does not check imports it: emptyKeyImports says which.
generateOTP(this, counter, emptyKeyImports) ==
  IF Len(this.secret) = 0 /\ ~emptyKeyImports THEN Throw("DataError")
  ELSE Ok(FormatOtp(BinCode(sign(this.secret, CounterBuffer(counter))), this.digits))

\* CounterAt with Math.round in the place of Math.floor
CounterAtRounded(nowMs, period) == (nowMs + 500 * period) \div (1000 * period)

\* Math.floor(Date.now() / 1000 / this.period)
CounterAt(nowMs, period) == nowMs \div (1000 * period)

\* this.generate() when Date.now() returns nowMs
generate(this, nowMs, emptyKeyImports) ==
  generateOTP(this, CounterAt(nowMs, this.period), emptyKeyImports)

\* the instants Date.now() returns in the model
Instants == {k * (TickMs \div 2) : k \in 0..(2 * MaxTick)}

\* ======================================================================
\* State.  The variables p_* belong to the specifications of the codec and
\* the TOTP class (SpecCodec, SpecTotp); the others to the request handler
\* (Spec).
\* ======================================================================
VARIABLES
  emptyKeyImports,  \* the runtime's importKey accepts a zero-length HMAC key
  p_text,           \* the secret text under test
  p_decoded,        \* <<>> or <<base32ToBytes(p_text)>>
  p_inst,           \* the results of new TOTP(p_text), at most two
  p_calls,          \* the generate / generateOTP calls made, at most two
  variant,          \* which of the workers is deployed
  ACCESS_PASSWORD,  \* env.ACCESS_PASSWORD
  store,            \* AUTH_KV / table totp_keys: name -> secret text, nullText when absent
  now,              \* Date.now(), in milliseconds
  nPost, nGet,      \* the requests handled so far
  supplied,         \* the clients that have sent the value of ACCESS_PASSWORD
  g_pc,             \* the GET request in flight: "idle", "get", "render", "done"
  g_client,         \* who sent it
  g_keys,           \* keys.keys not yet read (KV variants)
  g_totp,           \* totpKeys, the entries not yet rendered, in for-in order
  g_html,           \* html / cardsHtml: the items rendered so far
  g_written,        \* history: the names written or deleted since it started
  g_step0,          \* history: the time step at which it started
  resp,             \* the last response sent
  c_last,           \* the last call of add() or remove(name) in the page
  b_page,           \* the page on display and its timers
  a_texts,          \* the secret texts of the generators that run interleaved
  a_calls           \* the generate / generateOTP calls in flight or returned

pvars == <<p_text, p_decoded, p_inst, p_calls>>
gvars == <<g_pc, g_client, g_keys, g_totp, g_html, g_written, g_step0>>
svars == <<variant, ACCESS_PASSWORD, store, now, nPost, nGet, supplied, gvars, resp>>
cvars == <<c_last>>
bvars == <<b_page>>
avars == <<a_texts, a_calls>>
vars == <<emptyKeyImports, pvars, svars, cvars, bvars, avars>>

\* ------------------------------------------------------ the request handler
\* The workers: _worker.js ("kv1") and part_000 ("kv3") store in KV; part_001
\* and part_002 ("d1") store in D1 and have the same handler and the same loop.
Variants == {"kv1", "kv3", "d1"}
IsKV(v) == v \in {"kv1", "kv3"}

\* The names of the model in their order by code unit ("1" < "9" < "_" < "a"),
\* which is the order of AUTH_KV.list() and of ORDER BY name ASC; the names of
\* the requests of Spec, and the names of the store of SpecRender.
SortedNames == <<"10", "9", "__proto__", "a">>
Names == {"__proto__", "a"}
RenderNames == {"10", "9", "a"}

Clients == {"owner", "guest"}
DeployedPasswords == {"hunter2"}
\* the password field of a request: right, wrong, or missing
RequestPasswords == DeployedPasswords \cup {"guess", null}
\* the name, secret and key fields: present or missing
RequestNames == Names \cup {null}
RequestSecrets == {SecretA, ZeroByteSecret, InvalidSecret, nullText}
RequestKeys == Names \cup {null}

\* the password fields of the POST requests a client sends: the guest does not
\* know ACCESS_PASSWORD and only sends GET requests
PasswordsOf(client) == IF client = "owner" THEN RequestPasswords ELSE {}

\* The outcome of new TOTP(secret) for every secret of a request, computed once.
TotpMemo == {<<text, TOTP(text)>> : text \in RequestSecrets}

\* new TOTP(secret), looked up in TotpMemo when it is there
newTOTP(secret) ==
  IF \E m \in TotpMemo : m[1] = secret
    THEN (CHOOSE m \in TotpMemo : m[1] = secret)[2]
  ELSE TOTP(secret)

\* JavaScript truthiness of a form field
Truthy(field) == field \notin {"", null}
TruthyText(field) == field \notin {<<>>, nullText}

\* e.message of what new TOTP(secret) and generate() throw, in each worker
ErrorMessage(v, error) ==
  IF error = "Invalid base32" /\ ~IsKV(v) THEN "Invalid base32 string" ELSE error

\* the mismatch test when the password is tested only if it is present
PasswordMismatchIfPresent(password, access) == password # null /\ password # access

\* password !== ACCESS_PASSWORD
PasswordMismatch(password, access) == password # access

\* what a handler returns, with the store it leaves and the storage
\* operations it performed
Outcome(st, status, message, ops) ==
  [store |-> st, status |-> status, message |-> message, ops |-> ops]

Unauthorized(st) == Outcome(st, 401, <<"Unauthorized: Invalid password">>, <<>>)

AddErrorPrefix(v) == IF IsKV(v) THEN "Error adding key: " ELSE "add failed (tian jia shi bai): "

\* the try block of case 'add' with the store written before the secret is
\* validated
AddPutFirst(v, st, name, secret, t) ==
  IF ~t.ok
    THEN Outcome([st EXCEPT ![name] = secret], 400,
                 <<AddErrorPrefix(v), ErrorMessage(v, t.error)>>, <<"put">>)
  ELSE Outcome([st EXCEPT ![name] = secret], 200, <<"Key added successfully!">>, <<"put">>)

\* the try block of case 'add', t being the outcome of new TOTP(secret):
\* AUTH_KV.put, or INSERT INTO totp_keys, whose primary key is name
\* the try block of case 'add' with an INSERT that replaces the row of an
\* existing name
AddReplacing(v, st, name, secret, t) ==
  IF ~t.ok THEN Outcome(st, 400, <<AddErrorPrefix(v), ErrorMessage(v, t.error)>>, <<>>)
  ELSE Outcome([st EXCEPT ![name] = secret], 200, <<"Key added successfully!">>,
               <<IF IsKV(v) THEN "put" ELSE "insert">>)

AddValidated(v, st, name, secret, t) ==
  IF ~t.ok THEN Outcome(st, 400, <<AddErrorPrefix(v), ErrorMessage(v, t.error)>>, <<>>)
  ELSE IF IsKV(v)
    THEN Outcome([st EXCEPT ![name] = secret], 200, <<"Key added successfully!">>, <<"put">>)
  ELSE IF st[name] # nullText
    THEN Outcome(st, 400, <<AddErrorPrefix(v), "UNIQUE constraint failed: totp_keys.name">>,
                 <<"insert">>)
  ELSE Outcome([st EXCEPT ![name] = secret], 200, <<"Key added successfully!">>, <<"insert">>)

\* case 'add'
AddCase(v, st, name, secret) ==
  IF Truthy(name) /\ TruthyText(secret) THEN AddValidated(v, st, name, secret, newTOTP(secret))
  ELSE Outcome(st, 400, <<"Missing name or secret">>, <<>>)

\* case 'delete' answering 404 when there is no entry of that name
DeleteIfPresent(v, st, key) ==
  IF ~Truthy(key) THEN Outcome(st, 400, <<"Missing key to delete">>, <<>>)
  ELSE IF st[key] = nullText THEN Outcome(st, 404, <<"No such key">>, <<>>)
  ELSE Outcome([st EXCEPT ![key] = nullText], 200, <<"Key deleted successfully!">>, <<"delete">>)

\* case 'delete': AUTH_KV.delete or DELETE FROM totp_keys
DeleteCase(v, st, key) ==
  IF Truthy(key)
    THEN Outcome([st EXCEPT ![key] = nullText], 200, <<"Key deleted successfully!">>, <<"delete">>)
  ELSE Outcome(st, 400, <<"Missing key to delete">>, <<>>)

\* The array index a property name is (the canonical decimal of an integer
\* below 2^32 - 1), or -1; of the names of the model, "9" and "10" are.
ArrayIndex(name) == CASE name = "9" -> 9 [] name = "10" -> 10 [] OTHER -> -1

\* A property created on a plain object; obj lists the properties in the
\* order for (const name in obj) visits them: the array indices in ascending
\* numeric order, then the other names in the order they were created.
ObjectInsert(obj, entry) ==
  IF ArrayIndex(entry.name) < 0 THEN Append(obj, entry)
  ELSE SelectSeq(obj, LAMBDA e : ArrayIndex(e.name) >= 0 /\ ArrayIndex(e.name) < ArrayIndex(entry.name))
         \o <<entry>>
         \o SelectSeq(obj, LAMBDA e : ~(ArrayIndex(e.name) >= 0 /\ ArrayIndex(e.name) < ArrayIndex(entry.name)))

\* totpKeys[name] = value on a plain object: "__proto__" names the prototype
\* accessor, which ignores a string and creates no own property
ObjectSet(obj, name, value) ==
  IF name = "__proto__" THEN obj
  ELSE IF \E i \in 1..Len(obj) : obj[i].name = name
    THEN [i \in 1..Len(obj) |-> IF obj[i].name = name THEN [name |-> name, secret |-> value] ELSE obj[i]]
  ELSE ObjectInsert(obj, [name |-> name, secret |-> value])

RECURSIVE ObjectFromRows(_, _)
\* for (const row of results) totpKeys[row.name] = row.secret
ObjectFromRows(obj, rows) ==
  IF Len(rows) = 0 THEN obj
  ELSE ObjectFromRows(ObjectSet(obj, rows[1].name, rows[1].secret), Tail(rows))

\* keys.keys of AUTH_KV.list(): the names stored, in order
ListKeys(st) == SelectSeq(SortedNames, LAMBDA n : n \in DOMAIN st /\ st[n] # nullText)
\* results of SELECT name, secret FROM totp_keys ORDER BY name ASC
SelectRows(st) == [i \in 1..Len(ListKeys(st)) |-> [name |-> ListKeys(st)[i], secret |-> st[ListKeys(st)[i]]]]

\* the item of a code, and the item of an entry that failed; part_000 shows
\* no e.message
CodeItem(name, token) == [name |-> name, kind |-> "code", text |-> token, detail |-> ""]
ErrorItem(v, name, message) ==
  [name |-> name, kind |-> "error",
   text |-> IF v = "kv1" THEN <<"bad key (cuo wu mi yao)">> ELSE <<"key format error (mi yao ge shi cuo wu)">>,
   detail |-> IF v = "kv3" THEN "" ELSE message]

\* one iteration of the loop of appHtml when Date.now() returns nowMs:
\* g is what generate() returned or threw, t what new TOTP(secret) did
RenderGenerated(v, name, g) ==
  IF g.ok THEN CodeItem(name, g.value) ELSE ErrorItem(v, name, ErrorMessage(v, g.error))
\* RenderConstructed showing a code of zeros where the constructor threw
RenderConstructedLenient(v, name, t, nowMs, eki) ==
  IF t.ok THEN RenderGenerated(v, name, generate(t.value, nowMs, eki))
  ELSE CodeItem(name, <<"0", "0", "0", "0", "0", "0">>)
RenderConstructed(v, name, t, nowMs, eki) ==
  IF t.ok THEN RenderGenerated(v, name, generate(t.value, nowMs, eki))
  ELSE ErrorItem(v, name, ErrorMessage(v, t.error))
\* the iteration with the clock read once, when the worker started
RenderItemAtStart(v, name, secret, nowMs, eki) == RenderConstructed(v, name, newTOTP(secret), 0, eki)

RenderItem(v, name, secret, nowMs, eki) == RenderConstructed(v, name, newTOTP(secret), nowMs, eki)

\* The responses.  name and secret are the fields the dispatched case read:
\* name and secret for 'add', key (as name) for 'delete', null when no case
\* was reached; changed tells whether the request changed the store.
NoResponse ==
  [client |-> "owner", method |-> "none", password |-> null, action |-> null,
   name |-> null, secret |-> nullText, status |-> 0, kind |-> "none", message |-> <<>>,
   items |-> <<>>, embedded |-> null, ops |-> <<>>, changed |-> FALSE]
PostResponse(client, password, action, name, secret, out, changed) ==
  [client |-> client, method |-> "POST", password |-> password, action |-> action,
   name |-> name, secret |-> secret, status |-> out.status, kind |-> "text",
   message |-> out.message, items |-> <<>>, embedded |-> null, ops |-> out.ops,
   changed |-> changed]
FormResponse(client) ==
  [client |-> client, method |-> "GET", password |-> null, action |-> null,
   name |-> null, secret |-> nullText, status |-> 200, kind |-> "form", message |-> <<>>,
   items |-> <<>>, embedded |-> null, ops |-> <<>>, changed |-> FALSE]
\* appHtml(totpKeys, ACCESS_PASSWORD): the items, and the password in the script
AppResponse(client, items, access) ==
  [client |-> client, method |-> "GET", password |-> null, action |-> null,
   name |-> null, secret |-> nullText, status |-> 200, kind |-> "app", message |-> <<>>,
   items |-> items, embedded |-> access, ops |-> <<"read">>, changed |-> FALSE]

\* ======================================================================
\* The page's script: the functions of the browser it calls.  Strings are
\* texts; null and undefined are nullText.
\* ======================================================================
\* the printable ASCII characters, from code 32 to code 126 (the grave
\* accent, code 96, is written by its code point)
AsciiChars == <<
  " ", "!", "\"", "#", "$", "%", "&", "'", "(", ")", "*", "+",
  ",", "-", ".", "/", "0", "1", "2", "3", "4", "5", "6", "7",
  "8", "9", ":", ";", "<", "=", ">", "?", "@", "A", "B", "C",
  "D", "E", "F", "G", "H", "I", "J", "K", "L", "M", "N", "O",
  "P", "Q", "R", "S", "T", "U", "V", "W", "X", "Y", "Z", "[",
  "\\", "]", "^", "_", "U+0060", "a", "b", "c", "d", "e", "f", "g",
  "h", "i", "j", "k", "l", "m", "n", "o", "p", "q", "r", "s",
  "t", "u", "v", "w", "x", "y", "z", "{", "|", "}", "~">>
IsAscii(c) == \E i \in 1..Len(AsciiChars) : AsciiChars[i] = c
CharCode(c) == 31 + (CHOOSE i \in 1..Len(AsciiChars) : AsciiChars[i] = c)

HexDigits == <<"0", "1", "2", "3", "4", "5", "6", "7", "8", "9", "A", "B", "C", "D", "E", "F">>
\* the value of a hexadecimal digit of either case, or -1
HexValue(c) ==
  IF \E d \in 1..16 : HexDigits[d] = c \/ (d > 10 /\ LowerCase[d - 10] = c)
    THEN (CHOOSE d \in 1..16 : HexDigits[d] = c \/ (d > 10 /\ LowerCase[d - 10] = c)) - 1
  ELSE -1

IsAsciiAlpha(c) == \E i \in 1..26 : LowerCase[i] = c \/ UpperCase[i] = c
IsDecimalDigit(c) == \E d \in 1..10 : HexDigits[d] = c

\* str.indexOf of the first character of a set at or after position from
\* (positions from 1), or Len(str) + 1
IndexOfAny(str, set, from) ==
  IF \E i \in from..Len(str) : str[i] \in set
    THEN CHOOSE i \in from..Len(str) : str[i] \in set /\ \A j \in from..(i - 1) : str[j] \notin set
  ELSE Len(str) + 1

\* str.slice(from - 1): the text from position from on
SliceFrom(str, from) == SubSeq(str, from, Len(str))

\* String.prototype.trim
JsWhiteSpace == {" ", "\t", "\n", "\r"}
trim(str) ==
  IF \A i \in 1..Len(str) : str[i] \in JsWhiteSpace THEN <<>>
  ELSE SubSeq(str,
              CHOOSE i \in 1..Len(str) :
                str[i] \notin JsWhiteSpace /\ \A j \in 1..(i - 1) : str[j] \in JsWhiteSpace,
              CHOOSE i \in 1..Len(str) :
                str[i] \notin JsWhiteSpace /\ \A j \in (i + 1)..Len(str) : str[j] \in JsWhiteSpace)

startsWith(str, prefix) == Len(str) >= Len(prefix) /\ SubSeq(str, 1, Len(prefix)) = prefix

RECURSIVE split(_, _)
\* str.split(separator) for a one-character separator
split(str, separator) ==
  IF IndexOfAny(str, {separator}, 1) > Len(str) THEN <<str>>
  ELSE <<SubSeq(str, 1, IndexOfAny(str, {separator}, 1) - 1)>>
         \o split(SliceFrom(str, IndexOfAny(str, {separator}, 1) + 1), separator)

\* array.pop(), the value returned
pop(array) == array[Len(array)]

\* a text as the string it is
RECURSIVE StringOf(_)
StringOf(str) == IF Len(str) = 0 THEN "" ELSE Head(str) \o StringOf(Tail(str))
\* a form field: the string of its text, null when it is missing
FieldString(field) == IF field = nullText THEN null ELSE StringOf(field)

RECURSIVE PercentDecode(_, _, _, _)
\* Percent-decoding from position i on.  A "%" that two hexadecimal digits do
\* not follow, and a byte that is no character by itself, throw when strict
\* (decodeURIComponent) and stay as they are otherwise (form decoding, where
\* "+" is a space).  Sequences of several bytes do not occur in the model.
PercentDecode(str, i, acc, strict) ==
  IF i > Len(str) THEN Ok(acc)
  ELSE IF str[i] = "+" /\ ~strict THEN PercentDecode(str, i + 1, Append(acc, " "), strict)
  ELSE IF str[i] # "%" THEN PercentDecode(str, i + 1, Append(acc, str[i]), strict)
  ELSE IF /\ i + 2 <= Len(str)
          /\ HexValue(str[i + 1]) >= 0 /\ HexValue(str[i + 2]) >= 0
          /\ 16 * HexValue(str[i + 1]) + HexValue(str[i + 2]) \in 32..126
    THEN PercentDecode(str, i + 3,
           Append(acc, AsciiChars[16 * HexValue(str[i + 1]) + HexValue(str[i + 2]) - 31]), strict)
  ELSE IF strict THEN Throw("URIError")
  ELSE PercentDecode(str, i + 1, Append(acc, "%"), strict)

decodeURIComponent(str) == PercentDecode(str, 1, <<>>, TRUE)

\* the characters encodeURIComponent leaves as they are
UriUnreserved(c) ==
  \/ IsAsciiAlpha(c) \/ IsDecimalDigit(c)
  \/ c \in {"-", "_", ".", "!", "~", "*", "'", "(", ")"}

RECURSIVE encodeURIComponent(_)
\* encodeURIComponent: every other ASCII character becomes "%" and its code;
\* a non-ASCII character stands for the escapes of its UTF-8 bytes
encodeURIComponent(str) ==
  IF Len(str) = 0 THEN <<>>
  ELSE (IF UriUnreserved(Head(str)) \/ ~IsAscii(Head(str)) THEN <<Head(str)>>
        ELSE <<"%", HexDigits[(CharCode(Head(str)) \div 16) + 1],
                    HexDigits[(CharCode(Head(str)) % 16) + 1]>>)
       \o encodeURIComponent(Tail(str))

\* ---------------------------------------------------------------- new URL
\* new URL(input) without a base, for a scheme that is not special (http,
\* https, ftp, ws, wss, file): the basic URL parser of the URL Standard.  Dot
\* segments, IPv6 literals, numeric ports and fragments inside the path do not
\* occur in the model's inputs and are not reproduced.
ForbiddenHostChars == {" ", "\t", "\n", "\r", "#", "/", ":", "<", ">", "?", "@", "[", "\\", "]", "^", "|"}
SchemeChar(c) == IsAsciiAlpha(c) \/ IsDecimalDigit(c) \/ c \in {"+", "-", "."}

\* the ASCII lower case of a text
AsciiLower(str) ==
  [i \in 1..Len(str) |->
     IF \E k \in 1..26 : UpperCase[k] = str[i]
       THEN LowerCase[CHOOSE k \in 1..26 : UpperCase[k] = str[i]]
     ELSE str[i]]

RECURSIVE EncodeSpaces(_)
\* the percent-encoding the parser applies to a path or a query: of the
\* characters of the model only the space is in the encode sets
EncodeSpaces(str) ==
  IF Len(str) = 0 THEN <<>>
  ELSE (IF Head(str) = " " THEN <<"%", "2", "0">> ELSE <<Head(str)>>) \o EncodeSpaces(Tail(str))

\* what follows the authority, without the fragment
BeforeFragment(str) == SubSeq(str, 1, IndexOfAny(str, {"#"}, 1) - 1)
\* url.pathname and url.search of what follows the authority
URLPath(after) ==
  EncodeSpaces(SubSeq(BeforeFragment(after), 1, IndexOfAny(BeforeFragment(after), {"?"}, 1) - 1))
URLSearch(after) ==
  IF IndexOfAny(BeforeFragment(after), {"?"}, 1) >= Len(BeforeFragment(after)) THEN <<>>
  ELSE EncodeSpaces(SliceFrom(BeforeFragment(after), IndexOfAny(BeforeFragment(after), {"?"}, 1)))

\* the authority state, host state and port state: authority is the text
\* between "//" and the first "/", "?" or "#", after is the rest
URLAuthority(scheme, authority, after) ==
  LET at       == IF \E i \in 1..Len(authority) : authority[i] = "@"
                    THEN CHOOSE i \in 1..Len(authority) :
                           authority[i] = "@" /\ \A j \in (i + 1)..Len(authority) : authority[j] # "@"
                  ELSE 0
      hostport == SliceFrom(authority, at + 1)
      colon    == IndexOfAny(hostport, {":"}, 1)
      host     == SubSeq(hostport, 1, colon - 1)
      port     == SliceFrom(hostport, colon + 1)
  IN IF at > 0 /\ Len(hostport) = 0 THEN Throw("TypeError")                         \* host-missing
     ELSE IF \E i \in 1..Len(port) : ~IsDecimalDigit(port[i]) THEN Throw("TypeError")   \* port-invalid
     ELSE IF \E i \in 1..Len(host) : host[i] \in ForbiddenHostChars THEN Throw("TypeError")
     ELSE Ok([protocol |-> scheme \o <<":">>, hostname |-> host,
              pathname |-> URLPath(after), search |-> URLSearch(after)])

URL(input) ==
  LET colon == IndexOfAny(input, {":"}, 1)
      rest  == SliceFrom(input, colon + 1)
      slash == IndexOfAny(rest, {"/", "?", "#"}, 3)
  IN IF \/ colon > Len(input) \/ colon = 1
        \/ ~IsAsciiAlpha(input[1])
        \/ \E i \in 2..(colon - 1) : ~SchemeChar(input[i])
       THEN Throw("TypeError")                                \* no scheme and no base
     ELSE IF startsWith(rest, <<"/", "/">>)
       THEN URLAuthority(AsciiLower(SubSeq(input, 1, colon - 1)),
                         SubSeq(rest, 3, slash - 1), SliceFrom(rest, slash))
     ELSE Ok([protocol |-> AsciiLower(SubSeq(input, 1, colon - 1)) \o <<":">>, hostname |-> <<>>,
              pathname |-> URLPath(rest), search |-> URLSearch(rest)])

\* -------------------------------------------------------- URLSearchParams
\* the application/x-www-form-urlencoded parser: the name-value pairs of a
\* query or of a request body, in order
FormPair(piece) ==
  LET eq == IndexOfAny(piece, {"="}, 1)
  IN <<PercentDecode(SubSeq(piece, 1, eq - 1), 1, <<>>, FALSE).value,
       PercentDecode(SliceFrom(piece, eq + 1), 1, <<>>, FALSE).value>>
FormPairs(str) ==
  LET pieces == SelectSeq(split(str, "&"), LAMBDA piece : Len(piece) > 0)
  IN [k \in 1..Len(pieces) |-> FormPair(pieces[k])]
\* new URLSearchParams(search): a leading "?" is dropped
URLSearchParams(search) ==
  FormPairs(IF Len(search) > 0 /\ search[1] = "?" THEN Tail(search) ELSE search)
\* params.get(name) and formData.get(name): the first value, or null
ParamsGet(params, name) ==
  IF \E k \in 1..Len(params) : params[k][1] = name
    THEN params[CHOOSE k \in 1..Len(params) :
                  params[k][1] = name /\ \A j \in 1..(k - 1) : params[j][1] # name][2]
  ELSE nullText
\* Object.fromEntries(entries)[name]: the last value, or undefined
EntriesGet(params, name) ==
  IF \E k \in 1..Len(params) : params[k][1] = name
    THEN params[CHOOSE k \in 1..Len(params) :
                  params[k][1] = name /\ \A j \in (k + 1)..Len(params) : params[j][1] # name][2]
  ELSE nullText

\* ------------------------------------------------- add() and remove(name)
OtpauthPrefix == <<"o", "t", "p", "a", "u", "t", "h", ":", "/", "/">>
OtpauthProtocol == <<"o", "t", "p", "a", "u", "t", "h", ":">>
TotpType == <<"t", "o", "t", "p">>
\* the names of the fields, and the actions
FieldPassword == <<"p", "a", "s", "s", "w", "o", "r", "d">>
FieldAction == <<"a", "c", "t", "i", "o", "n">>
FieldName == <<"n", "a", "m", "e">>
FieldSecret == <<"s", "e", "c", "r", "e", "t">>
FieldKey == <<"k", "e", "y">>
FieldIssuer == <<"i", "s", "s", "u", "e", "r">>
ActionAdd == <<"a", "d", "d">>
ActionDelete == <<"d", "e", "l", "e", "t", "e">>
\* the default name of an imported entry (three CJK characters: "unnamed")
UnnamedText == <<"U+672A", "U+547D", "U+540D">>

\* a || b on texts
OrElse(a, b) == IF TruthyText(a) THEN a ELSE b

\* What add() has decided before it calls fetch: it stops with a report, or
\* it goes on with a name and a secret.
Stop(report) == [stop |-> TRUE, report |-> report, name |-> nullText, secret |-> nullText]
Fields(name, secret) == [stop |-> FALSE, report |-> "", name |-> name, secret |-> secret]

\* parseOtpAuthUrl(url) of _worker.js
parseOtpAuthUrl(url) ==
  LET u == URL(url)
  IN IF ~u.ok THEN u
     ELSE IF u.value.protocol # OtpauthProtocol THEN Throw("the protocol must be otpauth")
     ELSE IF u.value.hostname # TotpType THEN Throw("only the type totp is supported")
     ELSE IF ~decodeURIComponent(SliceFrom(u.value.pathname, 2)).ok
       THEN decodeURIComponent(SliceFrom(u.value.pathname, 2))
     ELSE Ok([label  |-> decodeURIComponent(SliceFrom(u.value.pathname, 2)).value,
              secret |-> EntriesGet(URLSearchParams(u.value.search), FieldSecret),
              issuer |-> EntriesGet(URLSearchParams(u.value.search), FieldIssuer)])

\* the import of _worker.js: n and s are the trimmed inputs, parsed is what
\* parseOtpAuthUrl returned or threw
ImportParsed(n, parsed) ==
  IF ~parsed.ok THEN Stop("invalid otpauth URL")
  ELSE IF ~TruthyText(parsed.value.secret) THEN Stop("no secret in the otpauth URL")
  ELSE Fields(IF TruthyText(n) THEN n
              ELSE OrElse(OrElse(parsed.value.label, parsed.value.issuer), UnnamedText),
              parsed.value.secret)

\* the import of part_000, part_001 and part_002: the try block, parsed being
\* what new URL(secret) returned or threw
ImportInline(name, parsed) ==
  IF ~parsed.ok THEN Stop("invalid otpauth URL")
  ELSE IF TruthyText(name)
    THEN Fields(name, ParamsGet(URLSearchParams(parsed.value.search), FieldSecret))
  ELSE IF ~decodeURIComponent(pop(split(pop(split(parsed.value.pathname, "/")), ":"))).ok
    THEN Stop("invalid otpauth URL")
  ELSE Fields(OrElse(OrElse(decodeURIComponent(pop(split(pop(split(parsed.value.pathname, "/")), ":"))).value,
                            ParamsGet(URLSearchParams(parsed.value.search), FieldIssuer)),
                     UnnamedText),
              ParamsGet(URLSearchParams(parsed.value.search), FieldSecret))

\* the import with the test of a missing name only
FieldsMissingNameOnly(name, secret) == ~TruthyText(name)

\* if (!name || !secret)
FieldsMissing(name, secret) == ~TruthyText(name) \/ ~TruthyText(secret)

\* add() up to the call of fetch, for the values of the two inputs
AddImported(v, name, secret) ==
  IF ~startsWith(secret, OtpauthPrefix) THEN Fields(name, secret)
  ELSE IF v = "kv1" THEN ImportParsed(name, parseOtpAuthUrl(secret))
  ELSE ImportInline(name, URL(secret))
AddChecked(imported) ==
  IF imported.stop THEN imported
  ELSE IF FieldsMissing(imported.name, imported.secret) THEN Stop("fill in the name and the secret")
  ELSE imported
AddRequest(v, nameValue, secretValue) == AddChecked(AddImported(v, trim(nameValue), trim(secretValue)))

\* the body of the request of add() and of remove(name); PWD is the password
\* the page was sent with
AddBody(PWD, name, secret) ==
  FieldPassword \o <<"=">> \o encodeURIComponent(PWD) \o <<"&">> \o FieldAction \o <<"=">> \o ActionAdd
    \o <<"&">> \o FieldName \o <<"=">> \o encodeURIComponent(name)
    \o <<"&">> \o FieldSecret \o <<"=">> \o encodeURIComponent(secret)
RemoveBody(PWD, name) ==
  FieldPassword \o <<"=">> \o encodeURIComponent(PWD) \o <<"&">> \o FieldAction \o <<"=">> \o ActionDelete
    \o <<"&">> \o FieldKey \o <<"=">> \o encodeURIComponent(name)

\* the time step of an instant
StepOf(nowMs) == (nowMs \div 1000) \div 30

\* the handler at rest, before any request
ServerIdle ==
  /\ store = [n \in Names |-> nullText]
  /\ now = 0
  /\ nPost = 0 /\ nGet = 0
  /\ supplied = {}
  /\ g_pc = "idle" /\ g_client = "owner" /\ g_keys = <<>> /\ g_totp = <<>> /\ g_html = <<>>
  /\ g_written = {} /\ g_step0 = 0
  /\ resp = NoResponse

\* the page before any click, no page timers, no call in flight
NoClick ==
  [fn |-> "none", name |-> <<>>, secret |-> <<>>, sent |-> FALSE, report |-> "", reload |-> "no"]
NoPage == [open |-> FALSE, step |-> 0, interval |-> -1, timeout |-> -1]
OthersIdle ==
  /\ c_last = NoClick
  /\ b_page = NoPage
  /\ a_texts = <<>> /\ a_calls = <<>>

\* ---------------------------------------- SpecCodec, SpecTotp: the TOTP class
CodecInit ==
  /\ emptyKeyImports \in BOOLEAN
  /\ p_text \in Texts \cup EncodedTexts
  /\ p_decoded = <<>>
  /\ p_inst = <<>>
  /\ p_calls = <<>>
  /\ variant = "kv1" /\ ACCESS_PASSWORD = "hunter2"
  /\ ServerIdle
  /\ OthersIdle

TotpInit ==
  /\ emptyKeyImports \in BOOLEAN
  /\ p_text \in SecretTexts
  /\ p_decoded = <<>>
  /\ p_inst = <<>>
  /\ p_calls = <<>>
  /\ variant = "kv1" /\ ACCESS_PASSWORD = "hunter2"
  /\ ServerIdle
  /\ OthersIdle

\* base32ToBytes(p_text)
PDecode ==
  /\ p_decoded = <<>>
  /\ p_decoded' = <<base32ToBytes(p_text)>>
  /\ UNCHANGED <<cvars, bvars, avars, emptyKeyImports, p_text, p_inst, p_calls, svars>>

\* new TOTP(p_text)
PConstruct ==
  /\ Len(p_inst) < 2
  /\ p_inst' = Append(p_inst, TOTP(p_text))
  /\ UNCHANGED <<cvars, bvars, avars, emptyKeyImports, p_text, p_decoded, p_calls, svars>>

\* p_inst[i].generateOTP(counter)
PGenerateOTP(i, counter) ==
  /\ i \in 1..Len(p_inst) /\ p_inst[i].ok
  /\ Len(p_calls) < 2
  /\ p_calls' = Append(p_calls,
       [inst |-> i, nowMs |-> -1, counter |-> counter,
        result |-> generateOTP(p_inst[i].value, counter, emptyKeyImports)])
  /\ UNCHANGED <<cvars, bvars, avars, emptyKeyImports, p_text, p_decoded, p_inst, svars>>

\* p_inst[i].generate() at the instant nowMs
PGenerate(i, nowMs) ==
  /\ i \in 1..Len(p_inst) /\ p_inst[i].ok
  /\ Len(p_calls) < 2
  /\ p_calls' = Append(p_calls,
       [inst |-> i, nowMs |-> nowMs, counter |-> CounterAt(nowMs, p_inst[i].value.period),
        result |-> generate(p_inst[i].value, nowMs, emptyKeyImports)])
  /\ UNCHANGED <<cvars, bvars, avars, emptyKeyImports, p_text, p_decoded, p_inst, svars>>

CodecNext == PDecode \/ PConstruct

TotpNext ==
  \/ PConstruct
  \/ \E i \in 1..2, counter \in Counters : PGenerateOTP(i, counter)
  \/ \E i \in 1..2, nowMs \in Instants : PGenerate(i, nowMs)

SpecCodec == CodecInit /\ [][CodecNext]_vars
SpecTotp == TotpInit /\ [][TotpNext]_vars

\* ------------------------------------------------- Spec: the request handler
\* the handler answers a POST: out is what the dispatched case returned, name
\* and secret the fields case 'add' read
Reply(client, password, action, name, secret, out) ==
  /\ nPost' = nPost + 1
  /\ store' = out.store
  /\ resp' = PostResponse(client, password, action, name, secret, out, out.store # store)
  /\ supplied' = IF password = ACCESS_PASSWORD THEN supplied \cup {client} ELSE supplied
  /\ g_written' = IF g_pc = "idle" THEN g_written
                  ELSE g_written \cup {n \in DOMAIN store : out.store[n] # store[n]}
  /\ UNCHANGED <<bvars, avars, emptyKeyImports, pvars, variant, ACCESS_PASSWORD, now, nGet,
                 g_pc, g_client, g_keys, g_totp, g_html, g_step0>>

\* POST action=add
HandleAdd(client, password, name, secret) ==
  /\ nPost < MaxPosts
  /\ IF PasswordMismatch(password, ACCESS_PASSWORD)
       THEN Reply(client, password, "add", null, nullText, Unauthorized(store))
     ELSE Reply(client, password, "add", name, secret, AddCase(variant, store, name, secret))
PostAdd(client, password, name, secret) ==
  HandleAdd(client, password, name, secret) /\ UNCHANGED cvars

\* POST action=delete
HandleDelete(client, password, key) ==
  /\ nPost < MaxPosts
  /\ IF PasswordMismatch(password, ACCESS_PASSWORD)
       THEN Reply(client, password, "delete", null, nullText, Unauthorized(store))
     ELSE Reply(client, password, "delete", key, nullText, DeleteCase(variant, store, key))
PostDelete(client, password, key) ==
  HandleDelete(client, password, key) /\ UNCHANGED cvars

\* POST action=auth
HandleAuth(client, password) ==
  /\ nPost < MaxPosts
  /\ Reply(client, password, "auth", null, nullText,
           IF PasswordMismatch(password, ACCESS_PASSWORD) THEN Unauthorized(store)
           ELSE Outcome(store, 200, <<>>, <<>>))
PostAuth(client, password) ==
  HandleAuth(client, password) /\ UNCHANGED cvars

\* POST with another action, or none
HandleOther(client, password, action) ==
  /\ nPost < MaxPosts
  /\ Reply(client, password, action, null, nullText,
           IF PasswordMismatch(password, ACCESS_PASSWORD) THEN Unauthorized(store)
           ELSE Outcome(store, 400, <<"Invalid action">>, <<>>))
PostOther(client, password, action) ==
  HandleOther(client, password, action) /\ UNCHANGED cvars

\* totpKeys is complete: the page is sent at once when it is empty, and the
\* loop of appHtml starts otherwise
Loaded(client, totp) ==
  /\ g_keys' = <<>>
  /\ g_html' = <<>>
  /\ IF Len(totp) = 0
       THEN /\ g_pc' = "done"
            /\ g_totp' = <<>>
            /\ resp' = AppResponse(client, <<>>, ACCESS_PASSWORD)
     ELSE /\ g_pc' = "render"
          /\ g_totp' = totp
          /\ resp' = resp

\* a GET arrives; with auth=true the keys are listed (KV) or the rows
\* selected (D1)
GetStart(client, auth) ==
  /\ g_pc \in {"idle", "done"}
  /\ nGet < MaxGets
  /\ nGet' = nGet + 1
  /\ g_client' = client
  /\ g_written' = {}
  /\ IF auth # "true"
       THEN /\ resp' = FormResponse(client)
            /\ g_pc' = "idle"
            /\ g_keys' = <<>> /\ g_totp' = <<>> /\ g_html' = <<>>
            /\ g_step0' = 0
     ELSE /\ g_step0' = StepOf(now)
          /\ IF IsKV(variant)
               THEN IF Len(ListKeys(store)) = 0 THEN Loaded(client, <<>>)
                    ELSE /\ g_pc' = "get"
                         /\ g_keys' = ListKeys(store)
                         /\ g_totp' = <<>> /\ g_html' = <<>>
                         /\ resp' = resp
             ELSE Loaded(client, ObjectFromRows(<<>>, SelectRows(store)))
  /\ UNCHANGED <<cvars, bvars, avars, emptyKeyImports, pvars, variant, ACCESS_PASSWORD, store, now, nPost, supplied>>

\* totpKeys[key.name] = await AUTH_KV.get(key.name), for the next key
GetKey ==
  /\ g_pc = "get"
  /\ IF Len(g_keys) = 1
       THEN Loaded(g_client, ObjectSet(g_totp, g_keys[1], store[g_keys[1]]))
     ELSE /\ g_keys' = Tail(g_keys)
          /\ g_totp' = ObjectSet(g_totp, g_keys[1], store[g_keys[1]])
          /\ UNCHANGED <<g_pc, g_html, resp>>
  /\ UNCHANGED <<cvars, bvars, avars, emptyKeyImports, pvars, variant, ACCESS_PASSWORD, store, now, nPost, nGet,
                 supplied, g_client, g_written, g_step0>>

\* the loop of appHtml renders the next entry; the page is sent after the last
Render ==
  /\ g_pc = "render"
  /\ IF Len(g_totp) = 1
       THEN /\ g_pc' = "done"
            /\ g_html' = <<>>
            /\ resp' = AppResponse(g_client,
                 Append(g_html, RenderItem(variant, g_totp[1].name, g_totp[1].secret, now,
                                           emptyKeyImports)),
                 ACCESS_PASSWORD)
     ELSE /\ g_html' = Append(g_html, RenderItem(variant, g_totp[1].name, g_totp[1].secret, now,
                                                 emptyKeyImports))
          /\ UNCHANGED <<g_pc, resp>>
  /\ g_totp' = Tail(g_totp)
  /\ UNCHANGED <<cvars, bvars, avars, emptyKeyImports, pvars, variant, ACCESS_PASSWORD, store, now, nPost, nGet,
                 supplied, g_client, g_keys, g_written, g_step0>>

\* the clock advances
Tick ==
  /\ now < MaxTick * TickMs
  /\ now' = now + TickMs
  /\ UNCHANGED <<cvars, bvars, avars, emptyKeyImports, pvars, variant, ACCESS_PASSWORD, store, nPost, nGet, supplied,
                 gvars, resp>>

Init ==
  /\ emptyKeyImports \in BOOLEAN
  /\ variant \in Variants
  /\ ACCESS_PASSWORD \in DeployedPasswords
  /\ ServerIdle
  /\ OthersIdle
  /\ p_text = <<>> /\ p_decoded = <<>> /\ p_inst = <<>> /\ p_calls = <<>>

Next ==
  \/ \E client \in Clients : \E password \in PasswordsOf(client), name \in RequestNames,
        secret \in RequestSecrets : PostAdd(client, password, name, secret)
  \/ \E client \in Clients : \E password \in PasswordsOf(client), key \in RequestKeys :
        PostDelete(client, password, key)
  \/ \E client \in Clients : \E password \in PasswordsOf(client) : PostAuth(client, password)
  \/ \E client \in Clients : \E password \in PasswordsOf(client), action \in {"export"} :
        PostOther(client, password, action)
  \/ \E client \in Clients, auth \in {"true", null} : GetStart(client, auth)
  \/ GetKey
  \/ Render
  \/ Tick

Spec == Init /\ [][Next]_vars

\* ------------------------------------- SpecClient: the page and the handler
\* The owner clicks the buttons of the page, which call add() and
\* remove(name), and sends requests of their own making; the handler answers
\* each request before the next click.
\* what is pasted into the secret input
ProvisioningUri == <<"o", "t", "p", "a", "u", "t", "h", ":", "/", "/", "t", "o", "t",
                     "p", "/", "E", "x", "a", "m", "p", "l", "e", ":", "a", "l", "i",
                     "c", "e", "@", "s", "i", "t", "e", ".", "c", "o", "m", "?", "s",
                     "e", "c", "r", "e", "t", "=", "J", "B", "S", "W", "Y", "3", "D",
                     "P", "E", "H", "P", "K", "3", "P", "X", "P", "&", "i", "s", "s",
                     "u", "e", "r", "=", "E", "x", "a", "m", "p", "l", "e">>
HotpSchemeUri == <<"h", "o", "t", "p", ":", "/", "/", "t", "o", "t", "p", "/", "x", "?",
                   "s", "e", "c", "r", "e", "t", "=", "A", "B", "C">>
HotpTypeUri == <<"o", "t", "p", "a", "u", "t", "h", ":", "/", "/", "h", "o", "t", "p",
                 "/", "x", "?", "s", "e", "c", "r", "e", "t", "=", "A", "B", "C">>
NoSecretUri == <<"o", "t", "p", "a", "u", "t", "h", ":", "/", "/", "t", "o", "t", "p",
                 "/", "x", "?", "i", "s", "s", "u", "e", "r", "=", "E", "x", "a", "m",
                 "p", "l", "e">>
BadPortUri == <<"o", "t", "p", "a", "u", "t", "h", ":", "/", "/", "t", "o", "t", "p",
                ":", "x", "/", "a", "?", "s", "e", "c", "r", "e", "t", "=", "A", "B",
                "C">>
EscapedLabelUri == <<"o", "t", "p", "a", "u", "t", "h", ":", "/", "/", "t", "o", "t",
                     "p", "/", "a", "%", "2", "0", "b", "?", "s", "e", "c", "r", "e",
                     "t", "=", "A", "B", "C">>
BadEscapeUri == <<"o", "t", "p", "a", "u", "t", "h", ":", "/", "/", "t", "o", "t", "p",
                  "/", "%", "z", "z", "?", "s", "e", "c", "r", "e", "t", "=", "A", "B",
                  "C">>
PastedTexts ==
  {ProvisioningUri, HotpSchemeUri, HotpTypeUri, NoSecretUri, BadPortUri, EscapedLabelUri,
   BadEscapeUri, SecretA, <<>>}
\* what is typed into the name input
TypedNames == {<<>>, <<" ", "a">>}
\* the password in the script of the page, as a text
PasswordTexts == {<<"h", "u", "n", "t", "e", "r", "2">>}

\* the names add() can send, the names of the requests made otherwise, and
\* the names the store of SpecClient can hold
ClientNameTexts ==
  {r.name : r \in {q \in {AddRequest(v, n, t) : v \in Variants, n \in TypedNames, t \in PastedTexts} :
                     ~q.stop}}
DirectNames == {"a", "", null}
DirectSecrets == {SecretA, InvalidSecret, <<>>, nullText}
ClientNames == {StringOf(t) : t \in ClientNameTexts} \cup (DirectNames \ {"", null})

ClientInit ==
  /\ emptyKeyImports = FALSE
  /\ variant \in Variants
  /\ ACCESS_PASSWORD \in DeployedPasswords
  /\ store = [n \in ClientNames |-> nullText]
  /\ now = 0
  /\ nPost = 0 /\ nGet = 0
  /\ supplied = {}
  /\ g_pc = "idle" /\ g_client = "owner" /\ g_keys = <<>> /\ g_totp = <<>> /\ g_html = <<>>
  /\ g_written = {} /\ g_step0 = 0
  /\ resp = NoResponse
  /\ OthersIdle
  /\ p_text = <<>> /\ p_decoded = <<>> /\ p_inst = <<>> /\ p_calls = <<>>

\* the handler reads the fields of a form and dispatches on action
HandleForm(client, form) ==
  LET password == FieldString(ParamsGet(form, FieldPassword))
      action   == FieldString(ParamsGet(form, FieldAction))
  IN IF action = "add"
       THEN HandleAdd(client, password, FieldString(ParamsGet(form, FieldName)),
                      ParamsGet(form, FieldSecret))
     ELSE IF action = "delete"
       THEN HandleDelete(client, password, FieldString(ParamsGet(form, FieldKey)))
     ELSE IF action = "auth" THEN HandleAuth(client, password)
     ELSE HandleOther(client, password, action)

\* what the page does with the response of fetch: kv1 reloads and reports
\* nothing, part_000 reports and reloads two seconds later, the D1 pages
\* report and reload at once; a response that is not ok is reported
AfterFetch(v, fn, nameValue, secretValue, status) ==
  [fn |-> fn, name |-> nameValue, secret |-> secretValue, sent |-> TRUE,
   report |-> IF status \in 200..299 THEN (IF v = "kv1" THEN "" ELSE "done") ELSE "failed",
   reload |-> IF status \in 200..299 THEN (IF v = "kv3" THEN "later" ELSE "now") ELSE "no"]

\* add() up to fetch for every input of the model, and the form the handler
\* reads from the body of each request of the page, computed once
AddRequestMemo ==
  [v \in Variants, nameValue \in TypedNames, secretValue \in PastedTexts |->
     AddRequest(v, nameValue, secretValue)]
AddFormMemo ==
  [PWD \in PasswordTexts, v \in Variants, nameValue \in TypedNames, secretValue \in PastedTexts |->
     IF AddRequestMemo[v, nameValue, secretValue].stop THEN <<>>
     ELSE FormPairs(AddBody(PWD, AddRequestMemo[v, nameValue, secretValue].name,
                            AddRequestMemo[v, nameValue, secretValue].secret))]
RemoveFormMemo ==
  [PWD \in PasswordTexts, name \in ClientNameTexts |-> FormPairs(RemoveBody(PWD, name))]

\* add() with the two inputs holding nameValue and secretValue
ClientAdd(nameValue, secretValue) ==
  IF AddRequestMemo[variant, nameValue, secretValue].stop
    THEN /\ c_last' = [fn |-> "add", name |-> nameValue, secret |-> secretValue,
                       sent |-> FALSE,
                       report |-> AddRequestMemo[variant, nameValue, secretValue].report,
                       reload |-> "no"]
         /\ UNCHANGED <<bvars, avars, emptyKeyImports, pvars, svars>>
  ELSE /\ \E PWD \in PasswordTexts :
            /\ StringOf(PWD) = ACCESS_PASSWORD
            /\ HandleForm("owner", AddFormMemo[PWD, variant, nameValue, secretValue])
       /\ c_last' = AfterFetch(variant, "add", nameValue, secretValue, resp'.status)

\* remove(name), the owner confirming or not
ClientRemove(name, confirmed) ==
  IF ~confirmed
    THEN /\ c_last' = [fn |-> "remove", name |-> name, secret |-> <<>>, sent |-> FALSE,
                       report |-> "", reload |-> "no"]
         /\ UNCHANGED <<bvars, avars, emptyKeyImports, pvars, svars>>
  ELSE /\ \E PWD \in PasswordTexts :
            /\ StringOf(PWD) = ACCESS_PASSWORD
            /\ HandleForm("owner", RemoveFormMemo[PWD, name])
       /\ c_last' = AfterFetch(variant, "remove", name, <<>>, resp'.status)

\* requests the owner sends without the page
DirectAdd(password, name, secret) == HandleAdd("owner", password, name, secret) /\ c_last' = NoClick
DirectDelete(password, key) == HandleDelete("owner", password, key) /\ c_last' = NoClick

ClientNext ==
  \/ \E nameValue \in TypedNames, secretValue \in PastedTexts : ClientAdd(nameValue, secretValue)
  \/ \E name \in ClientNameTexts, confirmed \in BOOLEAN : ClientRemove(name, confirmed)
  \/ \E password \in DeployedPasswords \cup {"guess"}, name \in DirectNames, secret \in DirectSecrets :
        DirectAdd(password, name, secret)
  \/ \E password \in DeployedPasswords \cup {"guess"}, key \in DirectNames : DirectDelete(password, key)

SpecClient == ClientInit /\ [][ClientNext]_vars

\* ------------------------------------------ SpecPage: the timers of the page
\* The page on display shows the codes of the time step in which the handler
\* built it (step); interval and timeout are the instants at which the
\* callback of setInterval and of setTimeout are due, -1 when none is set.
\* The clock is observed every ReloadDelayMs.  A callback runs when it is due
\* or later: the HTML Standard does not guarantee that timers run on schedule,
\* and MaxLateMs is the longest delay the model lets a callback have.
ReloadEveryMs == 30000
UpdateEveryMs == 1000
ReloadDelayMs == 500

\* new Date().getSeconds()
SecondsOf(nowMs) == (nowMs \div 1000) % 60

\* the script of a page that arrives at nowMs: _worker.js sets the interval
\* of its reload; the others call updateTimer() and set its interval
PageLoaded(v, nowMs) ==
  [open |-> TRUE, step |-> StepOf(nowMs),
   interval |-> nowMs + (IF v = "kv1" THEN ReloadEveryMs ELSE UpdateEveryMs),
   timeout |-> IF v # "kv1" /\ SecondsOf(nowMs) % 30 = 0 THEN nowMs + ReloadDelayMs ELSE -1]

\* updateTimer() called by the interval at nowMs, the next call being due at
\* next: at a second that is a multiple of 30 the interval is cleared and the
\* reload is set
updateTimer(page, nowMs, next) ==
  IF SecondsOf(nowMs) % 30 = 0
    THEN [page EXCEPT !.interval = -1,
                      !.timeout = IF page.timeout >= 0 THEN page.timeout ELSE nowMs + ReloadDelayMs]
  ELSE [page EXCEPT !.interval = next]

PageInit ==
  /\ emptyKeyImports = FALSE
  /\ variant \in Variants
  /\ ACCESS_PASSWORD \in DeployedPasswords
  /\ ServerIdle
  /\ OthersIdle
  /\ p_text = <<>> /\ p_decoded = <<>> /\ p_inst = <<>> /\ p_calls = <<>>

\* the owner opens the main page
PageOpen ==
  /\ ~b_page.open
  /\ b_page' = PageLoaded(variant, now)
  /\ UNCHANGED <<cvars, avars, emptyKeyImports, pvars, svars>>

\* the callback of setInterval runs: location.reload() in _worker.js,
\* updateTimer() in the others; the next call is due one interval after the
\* instant this one was due, or after the instant it ran
IntervalCallback ==
  /\ b_page.open
  /\ b_page.interval >= 0 /\ now >= b_page.interval
  /\ IF variant = "kv1" THEN b_page' = PageLoaded(variant, now)
     ELSE \E next \in {b_page.interval + UpdateEveryMs, now + UpdateEveryMs} :
            b_page' = updateTimer(b_page, now, next)
  /\ UNCHANGED <<cvars, avars, emptyKeyImports, pvars, svars>>

\* the callback of setTimeout runs: location.reload()
TimeoutCallback ==
  /\ b_page.open
  /\ b_page.timeout >= 0 /\ now >= b_page.timeout
  /\ b_page' = PageLoaded(variant, now)
  /\ UNCHANGED <<cvars, avars, emptyKeyImports, pvars, svars>>

\* the clock advances, no callback being left later than MaxLateMs
PageTick ==
  /\ now + ReloadDelayMs <= MaxPageMs
  /\ b_page.interval >= 0 => now + ReloadDelayMs <= b_page.interval + MaxLateMs
  /\ b_page.timeout >= 0 => now + ReloadDelayMs <= b_page.timeout + MaxLateMs
  /\ now' = now + ReloadDelayMs
  /\ UNCHANGED <<cvars, bvars, avars, emptyKeyImports, pvars, variant, ACCESS_PASSWORD, store, nPost,
                 nGet, supplied, gvars, resp>>

PageNext == PageOpen \/ IntervalCallback \/ TimeoutCallback \/ PageTick

SpecPage == PageInit /\ [][PageNext]_vars

\* ------------------------------ SpecAsync: generate calls that interleave
\* Two instances are built from the texts a_texts.  A call of generateOTP
\* runs to its first await (importKey), resumes when the key is imported and
\* runs to its second await (sign), and resumes when the digest is there; the
\* calls in flight resume in any order.  buf, key and hmac are the constants
\* of one call; importKey and sign read their arguments when they are called.
AsyncTexts == {SecretB, PaddedSecret, ZeroByteSecret}

\* the buffer every call would write and sign if there were one for all calls
SharedBuffer(calls, k) == calls[Len(calls)].buf

\* const buf = new ArrayBuffer(8) of the call k
BufferOf(calls, k) == calls[k].buf

AsyncInit ==
  /\ emptyKeyImports \in BOOLEAN
  /\ a_texts \in {t \in AsyncTexts \X AsyncTexts : t[1] # t[2]}
  /\ p_inst = <<TOTP(a_texts[1]), TOTP(a_texts[2])>>
  /\ a_calls = <<>>
  /\ p_text = <<>> /\ p_decoded = <<>> /\ p_calls = <<>>
  /\ variant = "kv1" /\ ACCESS_PASSWORD = "hunter2"
  /\ ServerIdle
  /\ c_last = NoClick /\ b_page = NoPage

\* generateOTP(counter) up to await crypto.subtle.importKey(...): nowMs is the
\* instant generate() read, -1 for a call of generateOTP itself; overlap tells
\* that another call was in flight
Started(i, nowMs, counter) ==
  [inst |-> i, nowMs |-> nowMs, counter |-> counter, pc |-> "importKey",
   buf |-> CounterBuffer(counter), keyData |-> p_inst[i].value.secret,
   key |-> <<>>, data |-> <<>>, result |-> Ok(<<>>),
   overlap |-> \E k \in 1..Len(a_calls) : a_calls[k].pc # "done"]

\* p_inst[i].generateOTP(counter) is called
AsyncGenerateOTP(i, counter) ==
  /\ Len(a_calls) < 2
  /\ a_calls' = Append(a_calls, Started(i, -1, counter))
  /\ UNCHANGED <<cvars, bvars, a_texts, emptyKeyImports, pvars, svars>>

\* p_inst[i].generate() is called at the instant nowMs
AsyncGenerate(i, nowMs) ==
  /\ Len(a_calls) < 2
  /\ a_calls' = Append(a_calls, Started(i, nowMs, CounterAt(nowMs, p_inst[i].value.period)))
  /\ UNCHANGED <<cvars, bvars, a_texts, emptyKeyImports, pvars, svars>>

\* importKey of the call k settles: it rejects a zero-length key where the
\* runtime checks it, and the call goes on to crypto.subtle.sign('HMAC', key, buf)
AsyncImported(k) ==
  /\ k \in 1..Len(a_calls) /\ a_calls[k].pc = "importKey"
  /\ a_calls' =
       [a_calls EXCEPT ![k] =
          IF Len(a_calls[k].keyData) = 0 /\ ~emptyKeyImports
            THEN [@ EXCEPT !.pc = "done", !.result = Throw("DataError")]
          ELSE [@ EXCEPT !.pc = "sign", !.key = a_calls[k].keyData,
                         !.data = BufferOf(a_calls, k)]]
  /\ UNCHANGED <<cvars, bvars, a_texts, emptyKeyImports, pvars, svars>>

\* sign of the call k settles, and the call returns the code
AsyncSigned(k) ==
  /\ k \in 1..Len(a_calls) /\ a_calls[k].pc = "sign"
  /\ a_calls' =
       [a_calls EXCEPT ![k] =
          [@ EXCEPT !.pc = "done",
                    !.result = Ok(FormatOtp(BinCode(sign(a_calls[k].key, a_calls[k].data)),
                                            p_inst[a_calls[k].inst].value.digits))]]
  /\ UNCHANGED <<cvars, bvars, a_texts, emptyKeyImports, pvars, svars>>

AsyncNext ==
  \/ \E i \in 1..2, counter \in Counters : AsyncGenerateOTP(i, counter)
  \/ \E i \in 1..2, nowMs \in Instants : AsyncGenerate(i, nowMs)
  \/ \E k \in 1..2 : AsyncImported(k)
  \/ \E k \in 1..2 : AsyncSigned(k)

SpecAsync == AsyncInit /\ [][AsyncNext]_vars

\* ---------- SpecRender: the main page of a store that holds several entries
\* the secret text of the entries stored at first, and the one of the adds
RenderSecrets == {SecretA, PaddedSecret}

\* the store holds what earlier requests left in it
RenderInit ==
  /\ emptyKeyImports = FALSE
  /\ variant \in Variants
  /\ ACCESS_PASSWORD \in DeployedPasswords
  /\ store = [n \in RenderNames |-> SecretA]
  /\ now = 0
  /\ nPost = 0 /\ nGet = 0
  /\ supplied = {}
  /\ g_pc = "idle" /\ g_client = "owner" /\ g_keys = <<>> /\ g_totp = <<>> /\ g_html = <<>>
  /\ g_written = {} /\ g_step0 = 0
  /\ resp = NoResponse
  /\ OthersIdle
  /\ p_text = <<>> /\ p_decoded = <<>> /\ p_inst = <<>> /\ p_calls = <<>>

\* the owner's requests: the main page, and the adds and deletes that arrive
\* while it is being built
RenderNext ==
  \/ GetStart("owner", "true")
  \/ GetKey
  \/ Render
  \/ Tick
  \/ /\ g_pc \in {"get", "render"}
     /\ \E name \in {"a"} : PostAdd("owner", ACCESS_PASSWORD, name, PaddedSecret)
  \/ /\ g_pc \in {"get", "render"}
     /\ \E key \in RenderNames : PostDelete("owner", ACCESS_PASSWORD, key)

SpecRender == RenderInit /\ [][RenderNext]_vars

\* ------------------------- SpecVector: the TOTP class at the RFC 6238 instants
\* the milliseconds past the whole second at which generate() is called
RfcMillis == {0, 999}

VectorInit ==
  /\ emptyKeyImports \in BOOLEAN
  /\ p_text = RfcSecret
  /\ p_decoded = <<>>
  /\ p_inst = <<>>
  /\ p_calls = <<>>
  /\ variant = "kv1" /\ ACCESS_PASSWORD = "hunter2"
  /\ ServerIdle
  /\ OthersIdle

\* p_inst[i].generate() at the instant of `seconds` s and `millis` ms
PGenerateAt(i, seconds, millis) ==
  /\ i \in 1..Len(p_inst) /\ p_inst[i].ok
  /\ Len(p_calls) < 2
  /\ LET counter == CounterAtSeconds(seconds, millis, p_inst[i].value.period)
     IN p_calls' = Append(p_calls,
          [inst |-> i, seconds |-> seconds, millis |-> millis, counter |-> counter,
           result |-> generateOTP(p_inst[i].value, counter, emptyKeyImports)])
  /\ UNCHANGED <<cvars, bvars, avars, emptyKeyImports, p_text, p_decoded, p_inst, svars>>

VectorNext ==
  \/ PConstruct
  \/ \E i \in 1..2, seconds \in RfcSeconds, millis \in RfcMillis : PGenerateAt(i, seconds, millis)

SpecVector == VectorInit /\ [][VectorNext]_vars

\* ------------- SpecHotp: the message and the truncation of generateOTP
\* A counter beyond the integers of the checker, by its limbs <<h, m, l>>: the
\* number h * 2^32 + m * 2^16 + l, with m and l below 2^16.
WideCounters ==
  {<<h, m, l>> : h \in {0, 1}, m \in {0, 1, 32768, 65535}, l \in {0, 1, 255, 256, 65535}}

\* buf after view.setUint32(4, counter) on the zeroed 8-byte buffer: setUint32
\* stores ToUint32(counter), the counter modulo 2^32, in bytes 4..7
CounterMessage(limbs) ==
  <<0, 0, 0, 0, limbs[2] \div 256, limbs[2] % 256, limbs[3] \div 256, limbs[3] % 256>>

\* The digests given to the truncation: 19 bytes fill + ramp * i (mod 256) and
\* a last byte, so that every offset and both values of the top bit occur.
DigestOf(fill, ramp, last) ==
  [i \in 1..20 |-> IF i = 20 THEN last ELSE (fill + ramp * i) % 256]
Digests ==
  {DigestOf(fill, ramp, last) :
     fill \in {0, 128, 255}, ramp \in {0, 13}, last \in (0..15) \cup {240, 255}}

HotpInit ==
  /\ emptyKeyImports = FALSE
  /\ p_text = <<>>
  /\ p_decoded = <<>>
  /\ p_inst = <<>>
  /\ p_calls = <<>>
  /\ variant = "kv1" /\ ACCESS_PASSWORD = "hunter2"
  /\ ServerIdle
  /\ OthersIdle

\* generateOTP(counter), lines 304-307: the message handed to sign
PMessage(counter) ==
  /\ Len(p_calls) < 2
  /\ p_calls' = Append(p_calls,
       [fn |-> "message", counter |-> counter, buf |-> CounterMessage(counter)])
  /\ UNCHANGED <<cvars, bvars, avars, emptyKeyImports, p_text, p_decoded, p_inst, svars>>

\* generateOTP, lines 316-323, once sign has returned the digest hmac
PTruncate(hmac) ==
  /\ Len(p_calls) < 2
  /\ p_calls' = Append(p_calls,
       [fn |-> "truncate", hmac |-> hmac, offset |-> Offset(hmac), binCode |-> BinCode(hmac),
        otp |-> FormatOtp(BinCode(hmac), 6)])
  /\ UNCHANGED <<cvars, bvars, avars, emptyKeyImports, p_text, p_decoded, p_inst, svars>>

HotpNext ==
  \/ \E counter \in WideCounters : PMessage(counter)
  \/ \E hmac \in Digests : PTruncate(hmac)

SpecHotp == HotpInit /\ [][HotpNext]_vars

\* ======================================================================
\* Properties of the codec and the TOTP class
\* ======================================================================
RECURSIVE DecimalValue(_)
\* the number a string of decimal digits denotes
DecimalValue(str) ==
  IF Len(str) = 0 THEN 0
  ELSE 10 * DecimalValue(SubSeq(str, 1, Len(str) - 1))
       + (CHOOSE d \in 0..9 : DigitChars[d + 1] = str[Len(str)])

IsAsciiDigit(c) == \E d \in 1..10 : DigitChars[d] = c
IsNonAscii(c) == c \in {"U+0131", "U+017F", "U+00DF", "U+00E9", "U+00C9"}

\* the key of the instance a recorded call was made on
KeyOf(call) == p_inst[call.inst].value.secret

\* the value of an alphabet symbol, and bit j (from 0, most significant
\* first) of the concatenated 5-bit values of a text of alphabet symbols
SymbolValue(c) == CHOOSE v \in 0..31 : alphabet[v + 1] = c
SymbolBit(text, j) == (SymbolValue(text[(j \div 5) + 1]) \div (2 ^ (4 - (j % 5)))) % 2
\* the first n bytes of that bit string
BytesOfSymbols(text, n) ==
  [i \in 1..n |->
     128 * SymbolBit(text, 8 * i - 8) + 64 * SymbolBit(text, 8 * i - 7)
       + 32 * SymbolBit(text, 8 * i - 6) + 16 * SymbolBit(text, 8 * i - 5)
       + 8 * SymbolBit(text, 8 * i - 4) + 4 * SymbolBit(text, 8 * i - 3)
       + 2 * SymbolBit(text, 8 * i - 2) + SymbolBit(text, 8 * i - 1)]
IsAlphabetSymbol(c) == \E v \in 1..32 : alphabet[v] = c

\* C24: for an input of n alphabet symbols, however long, base32ToBytes
\* returns exactly floor(5n/8) bytes, byte i being bits 8i..8i+7 of the
\* concatenated 5-bit symbol values; after each symbol fewer than 8 bits are
\* pending and at most one byte has been emitted for it (the bytes emitted
\* after k symbols are the first floor(5k/8)); the trailing bits are dropped
\* without error and the empty input gives zero bytes.
C24_DecodeEmitsTheBitsOfTheSymbols ==
  (Len(p_decoded) = 1 /\ \A i \in 1..Len(p_text) : IsAlphabetSymbol(p_text[i])) =>
    /\ p_decoded[1] = Ok(BytesOfSymbols(p_text, (5 * Len(p_text)) \div 8))
    /\ \A k \in 0..Len(p_text) :
         /\ base32ToBytes(SubSeq(p_text, 1, k)) = Ok(BytesOfSymbols(p_text, (5 * k) \div 8))
         /\ 5 * k - 8 * ((5 * k) \div 8) < 8
         /\ k > 0 => ((5 * k) \div 8) - ((5 * (k - 1)) \div 8) <= 1

\* the 32 symbols of the RFC 6238 key, which wrap the accumulator, decoded
\* to its 20 bytes "12345678901234567890"
C24_LongInputDecoded ==
  /\ p_text = RfcSecret
  /\ p_decoded = <<Ok([i \in 1..20 |-> 48 + (i % 10)])>>

\* the codes RFC 6238 publishes for its SHA-1 key, reduced to their last six
\* digits (94287082, 07081804, 89005924)
RfcCodes ==
  {<<59, <<"2", "8", "7", "0", "8", "2">>>>,
   <<1111111109, <<"0", "8", "1", "8", "0", "4">>>>,
   <<1234567890, <<"0", "0", "5", "9", "2", "4">>>>}

\* C21: for the RFC 6238 SHA-1 key and the 30-second step, generate() returns
\* the published reference code, reduced to 6 digits, at each of the RFC's
\* instants 59 s, 1111111109 s and 1234567890 s.
C21_ReferenceCodesAtRfcInstants ==
  \A k \in 1..Len(p_calls) :
    \A v \in RfcCodes :
      (p_text = RfcSecret /\ p_calls[k].seconds = v[1]) => p_calls[k].result = Ok(v[2])

\* two of the published codes have been returned, the one with two leading
\* zeros among them
C21_ReferenceCodeReturned ==
  /\ Len(p_calls) = 2
  /\ p_calls[1].seconds = 1234567890 /\ p_calls[1].result = Ok(<<"0", "0", "5", "9", "2", "4">>)
  /\ p_calls[2].seconds = 59 /\ p_calls[2].result = Ok(<<"2", "8", "7", "0", "8", "2">>)

\* the 8-byte big-endian unsigned encoding of the counter of limbs <<h, m, l>>
BigEndian8(limbs) ==
  <<0, (limbs[1] \div 65536) % 256, (limbs[1] \div 256) % 256, limbs[1] % 256,
    limbs[2] \div 256, limbs[2] % 256, limbs[3] \div 256, limbs[3] % 256>>

\* C22: for every non-negative integer counter the HMAC message generateOTP
\* builds is exactly 8 bytes, the big-endian unsigned encoding of the counter
\* with the high 4 bytes zero, and two different counters never give the same
\* message.
C22_MessageIsTheCounterBigEndian ==
  /\ \A k \in 1..Len(p_calls) :
       p_calls[k].fn = "message" =>
         /\ Len(p_calls[k].buf) = 8
         /\ p_calls[k].buf = BigEndian8(p_calls[k].counter)
         /\ SubSeq(p_calls[k].buf, 1, 4) = <<0, 0, 0, 0>>
  /\ \A j, k \in 1..Len(p_calls) :
       (p_calls[j].fn = "message" /\ p_calls[k].fn = "message"
          /\ p_calls[j].counter # p_calls[k].counter) => p_calls[j].buf # p_calls[k].buf

\* the truncation value of RFC 4226, section 5.3, by arithmetic alone
RfcTruncation(hmac) ==
  LET o == hmac[20] % 16
  IN (hmac[o + 1] % 128) * 16777216 + hmac[o + 2] * 65536 + hmac[o + 3] * 256 + hmac[o + 4]

\* C23: for every 20-byte digest, offset = digest[19] & 0x0F lies in 0..15,
\* the four bytes digest[offset..offset+3] are inside the digest, and binCode
\* is an integer in 0..2^31-1 equal to the truncation value of RFC 4226.
C23_TruncationInRangeAndPerRfc ==
  \A k \in 1..Len(p_calls) :
    p_calls[k].fn = "truncate" =>
      /\ Len(p_calls[k].hmac) = 20
      /\ p_calls[k].offset = p_calls[k].hmac[20] % 16
      /\ p_calls[k].offset \in 0..15
      /\ p_calls[k].offset + 4 <= Len(p_calls[k].hmac)
      /\ p_calls[k].binCode \in 0..2147483647
      /\ p_calls[k].binCode = RfcTruncation(p_calls[k].hmac)

\* a digest of offset 15 whose four bytes are all 255 has been truncated to
\* 2^31 - 1
C23_TopBitMaskedAtLastOffset ==
  \E k \in 1..Len(p_calls) :
    /\ p_calls[k].fn = "truncate"
    /\ p_calls[k].offset = 15
    /\ p_calls[k].hmac[16] = 255
    /\ p_calls[k].binCode = 2147483647

\* C1: every code generateOTP returns has exactly 6 characters, all ASCII
\* digits, and is the decimal of binCode mod 10^6 left-padded with "0"; an
\* instance with a key of at least one byte always returns one.
C1_SixDigitCode ==
  \A k \in 1..Len(p_calls) :
    /\ Len(KeyOf(p_calls[k])) > 0 => p_calls[k].result.ok
    /\ p_calls[k].result.ok =>
         /\ Len(p_calls[k].result.value) = 6
         /\ \A j \in 1..Len(p_calls[k].result.value) : IsAsciiDigit(p_calls[k].result.value[j])
         /\ DecimalValue(p_calls[k].result.value)
              = BinCode(sign(KeyOf(p_calls[k]), CounterBuffer(p_calls[k].counter))) % 1000000

\* C1 witness: generateOTP returned a code whose value is below 100000, so
\* that padding was needed
C1_PaddedCodeReturned ==
  \E k \in 1..Len(p_calls) :
    /\ p_calls[k].nowMs = -1
    /\ p_calls[k].result.ok
    /\ p_calls[k].result.value[1] = "0"
    /\ DecimalValue(p_calls[k].result.value) < 100000

\* C2: new TOTP(text) throws for every text that fails Base32 decoding and
\* for every text that decodes to zero bytes.
C2_ConstructionRejectsUndecodableAndEmpty ==
  \A i \in 1..Len(p_inst) :
    LET bytes == base32ToBytes(RemoveSpaces(p_text))
    IN (~bytes.ok \/ Len(bytes.value) = 0) => ~p_inst[i].ok

\* C3: generate and generateOTP return a code, and never fail, on every
\* instance whose construction succeeded.
C3_GenerateNeverFails ==
  \A k \in 1..Len(p_calls) : p_inst[p_calls[k].inst].ok => p_calls[k].result.ok

\* a symbol the claim C4 lists as outside the alphabet: a digit 0, 1, 8 or 9,
\* a non-ASCII character, or an "=" that is followed by another character
HasForeignSymbol(text) ==
  \E i \in 1..Len(text) :
    \/ text[i] \in {"0", "1", "8", "9"}
    \/ IsNonAscii(text[i])
    \/ text[i] = "=" /\ \E j \in (i + 1)..Len(text) : text[j] # "="

\* C4: Base32 decoding fails for every input that contains a digit 0, 1, 8
\* or 9, an "=" outside the trailing padding run, or a non-ASCII character.
C4_DecodeRejectsForeignSymbols ==
  \A i \in 1..Len(p_decoded) : HasForeignSymbol(p_text) => ~p_decoded[i].ok

\* the normalized form of a secret text as C11 describes it: whitespace
\* removed, letters upper-cased, the trailing run of "=" stripped
IsWhitespace(c) == c \in {" ", "\t", "\n"}
NormalizedForm(text) ==
  StripTrailingEquals(toUpperCase(SelectSeq(text, LAMBDA c : ~IsWhitespace(c))))

\* C11: decoding a secret text, as the constructor does, gives what decoding
\* its normalized form gives: the same bytes, or the same failure.
C11_DecodeEqualsDecodeOfNormalizedForm ==
  \A i \in 1..Len(p_inst) : p_inst[i] = TOTP(NormalizedForm(p_text))

\* C19: decoding the RFC 4648 Base32 encoding of a byte sequence, with or
\* without its padding, returns exactly that byte sequence.
C19_DecodeOfEncodingIsIdentity ==
  \A i \in 1..Len(p_decoded) :
    \A m \in EncodingMemo : m[3] = p_text => p_decoded[i] = Ok(m[1])

\* C19 witness: the padded encoding of four bytes with mixed bits (seven
\* symbols and one "=") has been decoded to those bytes
C19_PaddedEncodingDecoded ==
  \E m \in EncodingMemo :
    /\ m[3] = p_text
    /\ m[2]
    /\ Len(m[1]) = 4 /\ m[1][1] = 165 /\ m[1][4] = 255
    /\ p_text[8] = "="
    /\ p_decoded = <<Ok(m[1])>>

\* C10: for a secret of at least one byte, two generate calls at instants of
\* the same 30-second step return the same code, and so do two calls for the
\* same counter, on one instance or on two instances built from the same text.
C10_SameStepSameCode ==
  \A j \in 1..Len(p_calls), k \in 1..Len(p_calls) :
    (/\ Len(KeyOf(p_calls[j])) > 0
     /\ \/ /\ p_calls[j].nowMs >= 0
           /\ p_calls[k].nowMs >= 0
           /\ (p_calls[j].nowMs \div 1000) \div 30 = (p_calls[k].nowMs \div 1000) \div 30
        \/ p_calls[j].counter = p_calls[k].counter)
    => p_calls[j].result.ok /\ p_calls[j].result = p_calls[k].result

\* C10 witness: generate was called on two instances at two different
\* instants of one time step
C10_TwoInstantsOneStep ==
  /\ Len(p_calls) = 2
  /\ p_calls[1].inst # p_calls[2].inst
  /\ p_calls[1].nowMs >= 0 /\ p_calls[2].nowMs >= 0
  /\ p_calls[1].nowMs # p_calls[2].nowMs
  /\ (p_calls[1].nowMs \div 1000) \div 30 = (p_calls[2].nowMs \div 1000) \div 30
  /\ Len(KeyOf(p_calls[1])) > 0
  /\ p_calls[1].result.ok

\* ======================================================================
\* Properties of the request handler
\* ======================================================================

\* C5: an application page that shows stored entries is sent only to a
\* requester who has supplied the value of ACCESS_PASSWORD.
C5_AppPageOnlyAfterPassword ==
  (resp.kind = "app" /\ \E i \in 1..Len(resp.items) : resp.items[i].kind = "code")
    => resp.client \in supplied

\* C6: a POST whose password field is not ACCESS_PASSWORD, or is missing, is
\* answered 401 before the action is dispatched: no field of the action is
\* read, no storage operation is performed and the store is left as it was.
C6_WrongPasswordTouchesNothing ==
  (resp.method = "POST" /\ resp.password # ACCESS_PASSWORD)
  => /\ resp.status = 401
     /\ resp.ops = <<>>
     /\ ~resp.changed
     /\ resp.name = null /\ resp.secret = nullText

\* C6 witness: a POST without the password has been answered 401 while the
\* store holds an entry
C6_RejectedWithEntries ==
  /\ resp.method = "POST"
  /\ resp.password = null
  /\ resp.status = 401
  /\ \E n \in Names : store[n] # nullText

\* C7: an add request with the right password whose secret fails the
\* construction is answered 400 with the prefix and the error message, performs
\* no storage operation and leaves the store as it was.
C7_InvalidSecretStoresNothing ==
  (/\ resp.method = "POST" /\ resp.action = "add"
   /\ resp.password = ACCESS_PASSWORD
   /\ Truthy(resp.name) /\ TruthyText(resp.secret)
   /\ ~newTOTP(resp.secret).ok)
  => /\ resp.status = 400
     /\ resp.message = <<AddErrorPrefix(variant), ErrorMessage(variant, newTOTP(resp.secret).error)>>
     /\ resp.ops = <<>>
     /\ ~resp.changed

\* C7 witness: an add request with an undecodable secret has been answered
\* 400 while the store holds an entry
C7_InvalidSecretRejected ==
  /\ resp.method = "POST" /\ resp.action = "add"
  /\ resp.password = ACCESS_PASSWORD
  /\ resp.secret = InvalidSecret
  /\ resp.status = 400
  /\ \E n \in Names : store[n] # nullText

\* the page of the GET request that has completed is on display
PageShown == g_pc = "done" /\ resp.kind = "app"

\* the items of the page for a name
ItemsOf(n) == {i \in 1..Len(resp.items) : resp.items[i].name = n}

\* C8: every entry of the store has exactly one item in the page, whatever
\* its name: its 6-digit code, or a failure item with the reason and the
\* underlying error message (entries written while the page was being built
\* are left out of the comparison).
C8_EveryEntryExactlyOneItem ==
  PageShown =>
    \A n \in Names \ g_written :
      store[n] # nullText =>
        /\ Cardinality(ItemsOf(n)) = 1
        /\ \A i \in ItemsOf(n) :
             \/ resp.items[i].kind = "code" /\ Len(resp.items[i].text) = 6
             \/ resp.items[i].kind = "error" /\ resp.items[i].detail # ""

\* the code of a stored secret text at a time step
CodeAt(secret, step) == generateOTP(newTOTP(secret).value, step, emptyKeyImports)

C17_D1PageShowsWhatIsStored ==
  (PageShown /\ variant = "d1") =>
    \A n \in Names \ g_written : store[n] # nullText <=> ItemsOf(n) # {}

\* ======================================================================
\* Properties of the page and the handler together
\* ======================================================================
AbcSecret == <<"A", "B", "C">>

\* C12: a pasted text whose scheme is not otpauth or whose type is not totp
\* is never imported: no secret extracted from it is sent to the add action,
\* and when add() takes it for a provisioning URI the click ends with the
\* report of an invalid URI and without a request.
C12_OnlyOtpauthTotpImported ==
  (c_last.fn = "add" /\ c_last.secret \in {HotpSchemeUri, HotpTypeUri})
  => /\ ~(c_last.sent /\ resp.secret = AbcSecret)
     /\ startsWith(trim(c_last.secret), OtpauthPrefix)
          => (~c_last.sent /\ c_last.report = "invalid otpauth URL")

\* C13: importing the provisioning URI of Example:alice@site.com with no name
\* typed sends the whole percent-decoded path, "Example:alice@site.com", as
\* the label and JBSWY3DPEHPK3PXP as the secret.
C13_LabelIsTheWholePath ==
  (c_last.fn = "add" /\ c_last.secret = ProvisioningUri /\ c_last.name = <<>>)
  => /\ c_last.sent
     /\ resp.name = "Example:alice@site.com"
     /\ resp.secret = SecretA

\* C14: a click on add with a pasted text that begins with otpauth:// and
\* cannot be parsed as a URL, or has no secret parameter, reports an error,
\* sends no request and leaves the store as it was, whether or not a name
\* was typed.
C14_BadImportSendsNothing ==
  [][(c_last'.fn = "add" /\ c_last'.secret \in {NoSecretUri, BadPortUri})
       => /\ ~c_last'.sent
          /\ c_last'.report # ""
          /\ nPost' = nPost
          /\ store' = store
          /\ resp' = resp]_vars

\* C14 witness: with a name typed and an entry in the store, the import of a
\* URI without a secret has stopped, and so has that of an unparseable URI
C14_ImportStoppedWithNameTyped ==
  /\ c_last.fn = "add"
  /\ c_last.secret \in {NoSecretUri, BadPortUri}
  /\ c_last.name = <<" ", "a">>
  /\ ~c_last.sent
  /\ \E n \in ClientNames : store[n] # nullText

\* C15: an add request with the right password and an empty or missing name
\* or secret is answered 400 and stores nothing, and the reason it gives
\* tells which input was wrong: no request whose other input was the wrong
\* one is given the same reason.
C15_ReasonTellsTheWrongInput ==
  (/\ resp.method = "POST" /\ resp.action = "add"
   /\ resp.password = ACCESS_PASSWORD
   /\ (~Truthy(resp.name) \/ ~TruthyText(resp.secret)))
  => /\ resp.status = 400
     /\ ~resp.changed
     /\ \A name \in DirectNames, secret \in DirectSecrets :
          AddCase(variant, store, name, secret).message = resp.message
            => /\ Truthy(name) <=> Truthy(resp.name)
               /\ TruthyText(secret) <=> TruthyText(resp.secret)

\* C16: a delete request with the right password and a key removes the entry
\* of that name, leaves every other entry as it was and is answered 200
\* whether or not the entry existed; without a key it is answered 400 and
\* changes nothing.
C16_DeleteRemovesOnlyTheKey ==
  [][(/\ nPost' = nPost + 1
      /\ resp'.action = "delete"
      /\ resp'.password = ACCESS_PASSWORD)
       => IF Truthy(resp'.name)
            THEN /\ resp'.status = 200
                 /\ resp'.name \in DOMAIN store => store'[resp'.name] = nullText
                 /\ \A n \in DOMAIN store \ {resp'.name} : store'[n] = store[n]
          ELSE /\ resp'.status = 400
               /\ store' = store]_vars

\* C16 witness: a delete request with the right password has removed an
\* entry from the store
C16_EntryDeleted ==
  /\ resp.method = "POST" /\ resp.action = "delete"
  /\ resp.password = ACCESS_PASSWORD
  /\ resp.status = 200
  /\ resp.changed
  /\ store[resp.name] = nullText

\* C26: all codes of one page belong to the same time step, although appHtml
\* reads the clock for each entry and awaits between the entries.
C26_OnePageOneStep ==
  PageShown =>
    \E step \in g_step0..StepOf(now) :
      \A i \in 1..Len(resp.items) :
        resp.items[i].kind = "code" =>
          \E secret \in RenderSecrets \cup RequestSecrets :
            newTOTP(secret).ok /\ Ok(resp.items[i].text) = CodeAt(secret, step)

\* C28: in the KV variants every iteration of the loop of appHtml adds one
\* item and leaves the items before it as they are; an entry whose value was
\* read as null (listed, then deleted before its get) gives an error item,
\* every other entry the code of the value read at the step of the clock;
\* after the last entry the page is sent with status 200.
C28_DeletedEntryIsAnErrorItem ==
  [][(IsKV(variant) /\ g_pc = "render" /\ g_totp' = Tail(g_totp))
       => LET entry == g_totp[1]
              items == IF g_pc' = "done" THEN resp'.items ELSE g_html'
          IN /\ g_pc' = IF Len(g_totp) = 1 THEN "done" ELSE "render"
             /\ g_pc' = "done" => (resp'.kind = "app" /\ resp'.status = 200)
             /\ Len(items) = Len(g_html) + 1
             /\ SubSeq(items, 1, Len(g_html)) = g_html
             /\ items[Len(items)].name = entry.name
             /\ IF entry.secret = nullText THEN items[Len(items)].kind = "error"
                ELSE items[Len(items)] =
                       CodeItem(entry.name, CodeAt(entry.secret, StepOf(now)).value)]_vars

\* C28 witness: a KV page was sent that shows an error item for an entry
\* deleted while the page was being built, between two codes
C28_PageWithDeletedEntry ==
  /\ PageShown /\ IsKV(variant)
  /\ Len(resp.items) = 3
  /\ resp.items[1].kind = "code"
  /\ resp.items[2].kind = "error" /\ resp.items[2].name \in g_written
  /\ store[resp.items[2].name] = nullText
  /\ resp.items[3].kind = "code"

\* the place of a name in the order of ORDER BY name ASC
RowOrder(name) == CHOOSE i \in 1..Len(SortedNames) : SortedNames[i] = name

\* C30: the D1 page lists the entries in ascending order of name, the order
\* of the rows of SELECT ... ORDER BY name ASC, names that are decimal
\* integers included.
C30_D1PageInRowOrder ==
  (PageShown /\ variant = "d1") =>
    \A i, j \in 1..Len(resp.items) :
      i < j => RowOrder(resp.items[i].name) < RowOrder(resp.items[j].name)

\* the ACCESS_PASSWORD of a second deployment, which no request carries
OtherPassword == "swordfish"
\* The response the second deployment gives where this one gave r, when no
\* request so far carried the password of either: the stores are the same
\* and every POST is answered 401 by both, so only the page can differ.
ResponseUnder(r, access) ==
  IF r.kind = "app" THEN AppResponse(r.client, r.items, access) ELSE r

\* C27: ACCESS_PASSWORD is never disclosed to a requester who has not
\* supplied it: of two deployments that differ only in ACCESS_PASSWORD, every
\* request that carries neither password gets the same response from both.
C27_ResponseIndependentOfPassword ==
  (supplied = {} /\ resp.method # "none" /\ resp.password # OtherPassword)
    => ResponseUnder(resp, OtherPassword) = resp

\* C25: in the D1 variants an add request whose name already exists is
\* answered 400 with the storage error message and the existing entry keeps
\* its secret; an entry only ever comes from an add that was answered 200 for
\* a name not yet there, holds the secret text of that request unmodified,
\* and changes only by being deleted.
C25_D1AddNeverReplaces ==
  [][variant = "d1" =>
       /\ (/\ nPost' = nPost + 1
           /\ resp'.action = "add"
           /\ resp'.password = ACCESS_PASSWORD
           /\ Truthy(resp'.name) /\ TruthyText(resp'.secret)
           /\ store[resp'.name] # nullText)
            => /\ resp'.status = 400
               /\ store' = store
               /\ newTOTP(resp'.secret).ok =>
                    resp'.message = <<AddErrorPrefix(variant),
                                      "UNIQUE constraint failed: totp_keys.name">>
       /\ \A n \in DOMAIN store :
            store'[n] # store[n] =>
              \/ store'[n] = nullText
              \/ /\ store[n] = nullText
                 /\ nPost' = nPost + 1
                 /\ resp'.action = "add" /\ resp'.status = 200
                 /\ resp'.name = n /\ resp'.secret = store'[n]]_vars

\* C25 witness: a D1 add of a name that is stored, with another secret that
\* is valid, was refused with the storage error and the stored secret is kept
C25_SecondAddRefused ==
  /\ variant = "d1"
  /\ resp.method = "POST" /\ resp.action = "add"
  /\ resp.status = 400
  /\ resp.ops = <<"insert">>
  /\ store[resp.name] # nullText
  /\ store[resp.name] # resp.secret

\* ======================================================================
\* Properties of the page's timers
\* ======================================================================

\* C18: the page on display is reloaded at the start of each 30-second step:
\* the codes it shows are those of the current step or, until the reload
\* after the boundary, of the step before, never of a step that ended a whole
\* step ago.
C18_NoCodeOfAnElapsedStepForAWholeStep ==
  b_page.open => b_page.step >= StepOf(now) - 1

\* C29: in the countdown variants each 30-second boundary causes exactly one
\* reload: the page that the reload timer produces, even when it finishes
\* loading while seconds % 30 is still 0, schedules no further reload for
\* that boundary.
C29_ReloadedPageSchedulesNoReload ==
  [][(/\ variant # "kv1"
      /\ b_page.open
      /\ b_page.timeout >= 0 /\ now >= b_page.timeout
      /\ b_page' = PageLoaded(variant, now))
       => b_page'.timeout = -1]_vars

\* ======================================================================
\* Properties of interleaved generate calls
\* ======================================================================

\* C20: generate and generateOTP leave the instance as the constructor made
\* it (the secret bytes, period 30, 6 digits, SHA-1), and every call that
\* returns, however the calls in flight interleave, returns what the call
\* returns when it runs alone.
C20_InterleavedCallsReturnSequentialCodes ==
  /\ \A i \in 1..Len(p_inst) :
       /\ p_inst[i] = TOTP(a_texts[i])
       /\ p_inst[i].value.period = 30 /\ p_inst[i].value.digits = 6
       /\ p_inst[i].value.algorithm = "SHA-1"
  /\ \A k \in 1..Len(a_calls) :
       a_calls[k].pc = "done"
         => a_calls[k].result =
              generateOTP(p_inst[a_calls[k].inst].value, a_calls[k].counter, emptyKeyImports)

\* C20 witness: two calls on the two instances, with different counters, the
\* second called while the first was in flight, have both returned a code,
\* and the codes differ
C20_TwoOverlappingCallsReturned ==
  /\ Len(a_calls) = 2
  /\ a_calls[1].inst # a_calls[2].inst
  /\ a_calls[1].counter # a_calls[2].counter
  /\ a_calls[2].overlap
  /\ a_calls[1].pc = "done" /\ a_calls[2].pc = "done"
  /\ a_calls[1].result.ok /\ a_calls[2].result.ok
  /\ a_calls[1].result # a_calls[2].result

====
